---- MODULE Spec2Model ----
(***************************************************************************)
(* Model of the PDF form extraction core: the text normalizers of          *)
(* app/utils/utils.py and app/core/extractor.py, the template-driven line  *)
(* parser Extractor.find_all_fields_on_page, the checkbox resolver         *)
(* Extractor.find_checkbox_near_label, the heuristic orchestrator          *)
(* DynamicExtractor.extract_all with its strategies, and the pipeline      *)
(* DocumentProcessor.process_document over the database of app/db/crud.py. *)
(*                                                                         *)
(* Text is a sequence of one-character strings (<<"a","b">> is "ab"); a    *)
(* non-ASCII glyph is one element named by its code point ("U2713").       *)
(* Coordinates are integers; a rectangle is <<x0, y0, x1, y1>>; a word of  *)
(* page.get_text("words") is <<x0, y0, x1, y1, text>>.                     *)
(***************************************************************************)
EXTENDS Integers, Sequences, FiniteSets, TLC

VARIABLES
    \* a normalizer applied to an input string
    c_in, c_fn, c_out1, c_out2,
    \* Extractor.find_all_fields_on_page
    t_words, t_fields, t_pc, t_line, t_i, t_results, t_matches,
    \* DynamicExtractor.extract_all
    d_doc, d_page_no, d_pc, d_all_results, d_processed_keys, d_processed_indices, d_results,
    \* Extractor.find_checkbox_near_label
    b_page, b_label, b_instance, b_pc, b_result,
    \* DocumentProcessor.process_document
    p_job, p_pc, p_doc, p_db, p_form, p_page, p_fallback, p_extracted

cleanVars == <<c_in, c_fn, c_out1, c_out2>>
templateVars == <<t_words, t_fields, t_pc, t_line, t_i, t_results, t_matches>>
dynVars == <<d_doc, d_page_no, d_pc, d_all_results, d_processed_keys, d_processed_indices, d_results>>
checkboxVars == <<b_page, b_label, b_instance, b_pc, b_result>>
processorVars == <<p_job, p_pc, p_doc, p_db, p_form, p_page, p_fallback, p_extracted>>
vars == <<cleanVars, templateVars, dynVars, checkboxVars, processorVars>>
otherThanClean == <<templateVars, dynVars, checkboxVars, processorVars>>
otherThanTemplate == <<cleanVars, dynVars, checkboxVars, processorVars>>
otherThanDyn == <<cleanVars, templateVars, checkboxVars, processorVars>>
otherThanCheckbox == <<cleanVars, templateVars, dynVars, processorVars>>
otherThanProcessor == <<cleanVars, templateVars, dynVars, checkboxVars>>

(***************************************************************************)
(* Bounds of the model.                                                    *)
(***************************************************************************)
MaxLen == 4
MaxLines == 2
MaxPages == 2
MaxInstance == 1
MaxDbFault == 4

(***************************************************************************)
(* Characters and Python string primitives.                                *)
(***************************************************************************)
UpperLetters == <<"A","B","C","D","E","F","G","H","I","J","K","L","M","N","O","P","Q","R","S","T","U","V","W","X","Y","Z">>
LowerLetters == <<"a","b","c","d","e","f","g","h","i","j","k","l","m","n","o","p","q","r","s","t","u","v","w","x","y","z">>
Digits == <<"0","1","2","3","4","5","6","7","8","9">>

Range(f) == {f[i] : i \in DOMAIN f}

IsLetter(c) == c \in Range(UpperLetters) \cup Range(LowerLetters)

\* \w of Python's re for the characters of the model: [a-zA-Z0-9_]
IsWordChar(c) == IsLetter(c) \/ c \in Range(Digits) \/ c = "_"

\* \s of Python's re and the characters str.strip() removes
IsSpace(c) == c \in {" ", "\t", "\n"}

\* str.lower() on one character
LowerChar(c) ==
    IF c \in Range(UpperLetters)
    THEN LowerLetters[CHOOSE i \in DOMAIN UpperLetters : UpperLetters[i] = c]
    ELSE c

\* str.lower()
Lower(s) == [i \in DOMAIN s |-> LowerChar(s[i])]

\* number of leading characters of s that belong to the set cs
RECURSIVE RunLen(_, _)
RunLen(s, cs) ==
    IF s = <<>> \/ Head(s) \notin cs THEN 0 ELSE 1 + RunLen(Tail(s), cs)

\* number of leading whitespace characters of s
RECURSIVE SpaceLen(_)
SpaceLen(s) ==
    IF s = <<>> \/ ~IsSpace(Head(s)) THEN 0 ELSE 1 + SpaceLen(Tail(s))

Drop(s, n) == SubSeq(s, n + 1, Len(s))

Reverse(s) == [i \in 1..Len(s) |-> s[Len(s) + 1 - i]]

\* str.lstrip(), str.rstrip(), str.strip()
LStrip(s) == Drop(s, SpaceLen(s))
RStrip(s) == Reverse(LStrip(Reverse(s)))
Strip(s) == RStrip(LStrip(s))

\* str.strip(chars) for a set of characters
StripChars(s, cs) ==
    LET l == Drop(s, RunLen(s, cs))
    IN  Reverse(Drop(Reverse(l), RunLen(Reverse(l), cs)))

\* re.sub(r'[cs]{n,}', repl, s): every maximal run of at least n characters of
\* the set cs is replaced by repl
RECURSIVE SubRuns(_, _, _, _)
SubRuns(s, cs, n, repl) ==
    IF s = <<>> THEN <<>>
    ELSE LET k == RunLen(s, cs)
         IN  IF k = 0 THEN <<Head(s)>> \o SubRuns(Tail(s), cs, n, repl)
             ELSE IF k >= n THEN repl \o SubRuns(Drop(s, k), cs, n, repl)
             ELSE SubSeq(s, 1, k) \o SubRuns(Drop(s, k), cs, n, repl)

\* re.sub(r'\s+', ' ', s)
RECURSIVE CollapseSpaces(_)
CollapseSpaces(s) ==
    IF s = <<>> THEN <<>>
    ELSE LET k == SpaceLen(s)
         IN  IF k = 0 THEN <<Head(s)>> \o CollapseSpaces(Tail(s))
             ELSE <<" ">> \o CollapseSpaces(Drop(s, k))

\* re.sub(r'[\(\)\[\]\|:]', '', s)
JunkChars == {"(", ")", "[", "]", "|", ":"}
RemoveJunk(s) == SelectSeq(s, LAMBDA c : c \notin JunkChars)

\* re.sub(r'\b[a-zA-Z]\b', '', s): a letter with no word character on either
\* side is removed
IsStandaloneLetter(s, i) ==
    /\ IsLetter(s[i])
    /\ (i = 1 \/ ~IsWordChar(s[i - 1]))
    /\ (i = Len(s) \/ ~IsWordChar(s[i + 1]))

RECURSIVE KeepFrom(_, _)
KeepFrom(s, i) ==
    IF i > Len(s) THEN <<>>
    ELSE IF IsStandaloneLetter(s, i) THEN KeepFrom(s, i + 1)
    ELSE <<s[i]>> \o KeepFrom(s, i + 1)

RemoveStandaloneLetters(s) == KeepFrom(s, 1)

FillChars == {"_", "."}

(***************************************************************************)
(* app/utils/utils.py                                                      *)
(***************************************************************************)
clean_value(value) ==
    IF value = <<>> THEN <<>>
    ELSE LET a == SubRuns(value, FillChars, 2, <<" ">>)
             b == RemoveJunk(a)
             c == RemoveStandaloneLetters(b)
         IN  Strip(CollapseSpaces(c))

clean_text(text) ==
    IF text = <<>> THEN <<>>
    ELSE LET a == SubRuns(text, FillChars, 3, <<>>)
         IN  Strip(StripChars(Strip(a), {":"}))

(***************************************************************************)
(* app/core/extractor.py: Extractor._clean_value                           *)
(***************************************************************************)
\* s is \s*[_\.]+\s* from its first to its last character
IsBoundaryFill(s) ==
    LET a == Drop(s, SpaceLen(s))
        k == RunLen(a, FillChars)
        b == Drop(a, k)
    IN  k >= 1 /\ SpaceLen(b) = Len(b)

\* length of the match of ^\s*[_\.]+\s* at the start of s, 0 when none
LeadingFillLen(s) ==
    LET w == SpaceLen(s)
        k == RunLen(Drop(s, w), FillChars)
    IN  IF k = 0 THEN 0 ELSE w + k + SpaceLen(Drop(s, w + k))

\* the scan of re.sub for the second alternative \s*[_\.]+\s*$: the text is
\* cut at the leftmost position whose whole suffix matches
RECURSIVE CutTrailingFill(_)
CutTrailingFill(s) ==
    IF s = <<>> THEN <<>>
    ELSE IF IsBoundaryFill(s) THEN <<>>
    ELSE <<Head(s)>> \o CutTrailingFill(Tail(s))

\* re.sub(r'^\s*[_\.]+\s*|\s*[_\.]+\s*$', '', s)
StripBoundaryFill(s) == CutTrailingFill(Drop(s, LeadingFillLen(s)))

\* re.sub(r'\s*\|\s*', '', s)
RECURSIVE RemovePipes(_)
RemovePipes(s) ==
    IF s = <<>> THEN <<>>
    ELSE LET w == SpaceLen(s)
             r == Drop(s, w)
         IN  IF r # <<>> /\ Head(r) = "|"
             THEN RemovePipes(Drop(Tail(r), SpaceLen(Tail(r))))
             ELSE <<Head(s)>> \o RemovePipes(Tail(s))

Extractor_clean_value(value) ==
    IF value = <<>> THEN <<>>
    ELSE LET a == SubRuns(value, {"_"}, 3, <<>>)
             b == SubRuns(a, {"."}, 3, <<>>)
             c == StripBoundaryFill(b)
             d == RemovePipes(c)
         IN  Strip(CollapseSpaces(d))

(***************************************************************************)
(* Geometry: fitz.Rect as used by the extractors.                          *)
(***************************************************************************)
Min(a, b) == IF a <= b THEN a ELSE b
Max(a, b) == IF a >= b THEN a ELSE b
Abs(a) == IF a >= 0 THEN a ELSE 0 - a

\* fitz.Rect(word[:4])
WordRect(w) == <<w[1], w[2], w[3], w[4]>>

\* Rect.is_empty
RectIsEmpty(r) == r[1] >= r[3] \/ r[2] >= r[4]

\* Rect.intersects(other): the two rectangles share a non-empty area
RectIntersects(a, b) ==
    /\ ~RectIsEmpty(a)
    /\ ~RectIsEmpty(b)
    /\ Max(a[1], b[1]) < Min(a[3], b[3])
    /\ Max(a[2], b[2]) < Min(a[4], b[4])

\* Rect.include_rect(other) for non-empty rectangles: the union box
IncludeRect(a, b) ==
    <<Min(a[1], b[1]), Min(a[2], b[2]), Max(a[3], b[3]), Max(a[4], b[4])>>

(***************************************************************************)
(* Python sequence helpers.                                                *)
(***************************************************************************)
\* str.split(): the maximal runs of non-whitespace characters
RECURSIVE WordLen(_)
WordLen(s) ==
    IF s = <<>> \/ IsSpace(Head(s)) THEN 0 ELSE 1 + WordLen(Tail(s))

RECURSIVE Split(_)
Split(s) ==
    LET t == LStrip(s)
    IN  IF t = <<>> THEN <<>>
        ELSE <<SubSeq(t, 1, WordLen(t))>> \o Split(Drop(t, WordLen(t)))

\* " ".join(parts)
RECURSIVE Join(_)
Join(parts) ==
    IF parts = <<>> THEN <<>>
    ELSE IF Len(parts) = 1 THEN parts[1]
    ELSE parts[1] \o <<" ">> \o Join(Tail(parts))

\* insertion of the pair x = <<key, item>> into pairs sorted by key, after
\* the pairs with an equal key (ascending) or a greater-or-equal key (descending)
RECURSIVE InsertAsc(_, _)
InsertAsc(sorted, x) ==
    IF sorted = <<>> THEN <<x>>
    ELSE IF Head(sorted)[1] <= x[1]
         THEN <<Head(sorted)>> \o InsertAsc(Tail(sorted), x)
         ELSE <<x>> \o sorted

RECURSIVE InsertDesc(_, _)
InsertDesc(sorted, x) ==
    IF sorted = <<>> THEN <<x>>
    ELSE IF Head(sorted)[1] >= x[1]
         THEN <<Head(sorted)>> \o InsertDesc(Tail(sorted), x)
         ELSE <<x>> \o sorted

RECURSIVE SortPairsAsc(_)
SortPairsAsc(pairs) ==
    IF pairs = <<>> THEN <<>>
    ELSE InsertAsc(SortPairsAsc(SubSeq(pairs, 1, Len(pairs) - 1)), pairs[Len(pairs)])

RECURSIVE SortPairsDesc(_)
SortPairsDesc(pairs) ==
    IF pairs = <<>> THEN <<>>
    ELSE InsertDesc(SortPairsDesc(SubSeq(pairs, 1, Len(pairs) - 1)), pairs[Len(pairs)])

\* sorted(seq, key=Key): stable
SortedAsc(seq, Key(_)) ==
    LET sorted == SortPairsAsc([k \in DOMAIN seq |-> <<Key(seq[k]), seq[k]>>])
    IN  [k \in DOMAIN seq |-> sorted[k][2]]

\* sorted(seq, key=Key, reverse=True): stable, equal keys keep their order
SortedDesc(seq, Key(_)) ==
    LET sorted == SortPairsDesc([k \in DOMAIN seq |-> <<Key(seq[k]), seq[k]>>])
    IN  [k \in DOMAIN seq |-> sorted[k][2]]

(***************************************************************************)
(* app/core/extractor.py: Extractor.find_all_fields_on_page                *)
(***************************************************************************)
\* round(w[1] / 5.0) * 5 for an integer, non-negative y0
YKey(w) == 5 * ((2 * w[2] + 5) \div 10)

LineKeyOf(y) == y
WordX(w) == w[1]

\* the keys of `lines`, sorted
RECURSIVE DistinctKeys(_, _)
DistinctKeys(words, seen) ==
    IF words = <<>> THEN <<>>
    ELSE IF YKey(Head(words)) \in seen THEN DistinctKeys(Tail(words), seen)
    ELSE <<YKey(Head(words))>> \o DistinctKeys(Tail(words), seen \cup {YKey(Head(words))})

SortedLineKeys(words) == SortedAsc(DistinctKeys(words, {}), LineKeyOf)

\* sorted(lines[y_key], key=lambda w: w[0])
LineWords(words, y_key) ==
    SortedAsc(SelectSeq(words, LAMBDA w : YKey(w) = y_key), WordX)

\* all_labels = [f['label'] for f in fields_config]
AllLabels(fields_config) == [k \in DOMAIN fields_config |-> fields_config[k].label]

\* variant of LabelsLongestFirst: the labels are tried in declaration order
LabelsInDeclarationOrder(all_labels) == all_labels

\* sorted(all_labels, key=len, reverse=True)
LabelsLongestFirst(all_labels) == SortedDesc(all_labels, Len)

\* " ".join(line_words[i + j][4] for j in range(n)), i counted from 1
PagePhrase(line_words, i, n) == Join([j \in 1..n |-> line_words[i + j - 1][5]])

\* the phrase of the label's word count at position i equals the label
LabelMatchesAt(line_words, i, label) ==
    LET n == Len(Split(label))
    IN  /\ i - 1 + n <= Len(line_words)
        /\ PagePhrase(line_words, i, n) = label

\* the first label, longest first, matching at position i; <<>> when none
RECURSIVE FirstMatching(_, _, _)
FirstMatching(labels, line_words, i) ==
    IF labels = <<>> THEN <<>>
    ELSE IF LabelMatchesAt(line_words, i, Head(labels)) THEN Head(labels)
    ELSE FirstMatching(Tail(labels), line_words, i)

FoundLabel(line_words, i, all_labels) ==
    FirstMatching(LabelsLongestFirst(all_labels), line_words, i)

\* variant of IsNextLabel: the value never stops at another label
IsNextLabelNever(line_words, k, found_label, all_labels) == FALSE

\* "Stop if we hit another label": another declared label starts at word k
IsNextLabel(line_words, k, found_label, all_labels) ==
    \E m \in DOMAIN all_labels :
        /\ all_labels[m] # found_label
        /\ line_words[k][5] = Split(all_labels[m])[1]
        /\ LabelMatchesAt(line_words, k, all_labels[m])

\* the value words of the same line, from word k on
RECURSIVE SameLineValue(_, _, _, _)
SameLineValue(line_words, k, found_label, all_labels) ==
    IF k > Len(line_words) THEN <<>>
    ELSE IF IsNextLabel(line_words, k, found_label, all_labels) THEN <<>>
    ELSE <<line_words[k]>> \o SameLineValue(line_words, k + 1, found_label, all_labels)

\* a word of the next line that is the first word of a declared label
IsLabelStart(word, all_labels) ==
    \E m \in DOMAIN all_labels : word[5] = Split(all_labels[m])[1]

\* the value words taken from the next line, for a label starting at label_x
RECURSIVE NextLineValue(_, _, _)
NextLineValue(next_line_words, label_x, all_labels) ==
    IF next_line_words = <<>> THEN <<>>
    ELSE LET word == Head(next_line_words)
         IN  IF word[1] >= label_x - 10
             THEN IF IsLabelStart(word, all_labels) THEN <<>>
                  ELSE IF word[1] > label_x + 200 THEN <<word>>
                  ELSE <<word>> \o NextLineValue(Tail(next_line_words), label_x, all_labels)
             ELSE NextLineValue(Tail(next_line_words), label_x, all_labels)

\* value_words of a label found at position i of line line_idx (from 1)
ValueWords(words, line_idx, i, found_label, all_labels) ==
    LET keys == SortedLineKeys(words)
        line_words == LineWords(words, keys[line_idx])
        start_index == i + Len(Split(found_label))
        same == SameLineValue(line_words, start_index, found_label, all_labels)
    IN  IF same = <<>> /\ line_idx + 1 <= Len(keys) /\ keys[line_idx + 1] - keys[line_idx] <= 30
        THEN NextLineValue(LineWords(words, keys[line_idx + 1]), line_words[i][1], all_labels)
        ELSE same

\* next((f['name'] for f in fields_config if f['label'] == found_label), found_label)
FieldName(fields_config, found_label) ==
    IF \E k \in DOMAIN fields_config : fields_config[k].label = found_label
    THEN LET k == CHOOSE k \in DOMAIN fields_config :
                     /\ fields_config[k].label = found_label
                     /\ \A m \in 1..(k - 1) : fields_config[m].label # found_label
         IN  fields_config[k].name
    ELSE found_label

\* the union rectangle of the value words
RECURSIVE UnionRect(_, _)
UnionRect(rect, value_words) ==
    IF value_words = <<>> THEN rect
    ELSE UnionRect(IncludeRect(rect, WordRect(Head(value_words))), Tail(value_words))

\* value_rect: the union of the value words, or the area after the label
ValueRect(value_words, label_rect_end) ==
    IF value_words # <<>>
    THEN UnionRect(WordRect(value_words[1]), Tail(value_words))
    ELSE <<label_rect_end[3], label_rect_end[2], label_rect_end[3] + 50, label_rect_end[4]>>

\* field_name in ['Title', 'Cell', 'e-mail']
AllowEmptyFields == {<<"T","i","t","l","e">>, <<"C","e","l","l">>, <<"e","-","m","a","i","l">>}

\* variant of StoreResult: only a non-empty value is stored
StoreResultNonEmptyOnly(value_text, field_name) == value_text # <<>>

\* if value_text or field_name in ['Title', 'Cell', 'e-mail']
StoreResult(value_text, field_name) ==
    value_text # <<>> \/ field_name \in AllowEmptyFields

\* variant of DictPut: a key already present keeps its first value
DictPutKeepFirst(results, name, value, rect) ==
    IF \E k \in DOMAIN results : results[k].name = name
    THEN results
    ELSE Append(results, [name |-> name, value |-> value, rect |-> rect])

\* results[field_name] = (value_text, value_rect): a dict keeps the position
\* of a key already present
DictPut(results, name, value, rect) ==
    IF \E k \in DOMAIN results : results[k].name = name
    THEN [k \in DOMAIN results |->
            IF results[k].name = name
            THEN [name |-> name, value |-> value, rect |-> rect]
            ELSE results[k]]
    ELSE Append(results, [name |-> name, value |-> value, rect |-> rect])

\* len([w for w in value_words if w in line_words[start_index:]])
ConsumedOnLine(value_words, line_words, start_index) ==
    Len(SelectSeq(value_words,
                  LAMBDA w : \E k \in start_index..Len(line_words) : line_words[k] = w))
(***************************************************************************)
(* app/core/dynamic_extractor.py: DynamicExtractor                         *)
(*                                                                         *)
(* A page is [widgets, tables, words] with the faults of the document      *)
(* engine as inputs: widgets_fault (page.widgets() raises), find_tables_   *)
(* fault (page.find_tables() raises), words_fault (page.get_text raises);  *)
(* a table carries extract_fault (table.extract() raises) and bbox_faults, *)
(* the cells (row, col) whose get_cell_bbox raises.  A record is           *)
(* [key, value, page_num, coords, method]; coords is the rectangle that    *)
(* the code formats with one decimal.  Word indices count from 1.          *)
(***************************************************************************)
\* re.match(r'^[_\.\s]+$', text)
IsFormFillLine(text) ==
    /\ text # <<>>
    /\ \A k \in DOMAIN text : text[k] \in FillChars \/ IsSpace(text[k])

\* text.strip().lower() in ['x', U+2713, U+2714, U+2611, U+2610]
IsCheckboxMarker(text) ==
    Lower(Strip(text)) \in {<<"x">>, <<"U2713">>, <<"U2714">>, <<"U2611">>, <<"U2610">>}

\* Body applied to the value of x: the intermediate state of a loop is
\* computed once and then passed on
Bind(x, Body(_)) == CHOOSE r \in {Body(v) : v \in {x}} : TRUE

\* str(n) for n >= 0
RECURSIVE IntToStr(_)
IntToStr(n) ==
    IF n < 10 THEN <<Digits[n + 1]>>
    ELSE IntToStr(n \div 10) \o <<Digits[(n % 10) + 1]>>

\* needle in hay (substring)
Contains(hay, needle) ==
    \E k \in 0..(Len(hay) - Len(needle)) : SubSeq(hay, k + 1, k + Len(needle)) = needle

Record(key, value, page_num, coords, method) ==
    [key |-> key, value |-> value, page_num |-> page_num, coords |-> coords,
     method |-> method]

\* the concatenation of a sequence of sequences
RECURSIVE Flatten(_)
Flatten(seqs) == IF seqs = <<>> THEN <<>> ELSE Head(seqs) \o Flatten(Tail(seqs))

(***************************************************************************)
(* _extract_from_widgets                                                   *)
(***************************************************************************)
WidgetRecord(widget, page_num) ==
    LET is_box == widget.field_type \in {"checkbox", "radio"}
        key == clean_text(widget.field_name) \o (IF is_box THEN <<" ","(","c","h","e","c","k","b","o","x",")">> ELSE <<>>)
        value == IF is_box
                 THEN IF widget.field_value # <<"O","f","f">> THEN <<"C","h","e","c","k","e","d">> ELSE <<"N","o","t"," ","c","h","e","c","k","e","d">>
                 ELSE clean_value(widget.field_value)
    IN  Record(key, value, page_num, widget.rect, "Widget")

ExtractFromWidgets(page, page_num) ==
    SelectSeq([k \in DOMAIN page.widgets |->
                  IF page.widgets[k].field_name # <<>>
                  THEN WidgetRecord(page.widgets[k], page_num)
                  ELSE Record(<<>>, <<>>, page_num, <<>>, "Widget")],
              LAMBDA r : r.value # <<>>)

(***************************************************************************)
(* _extract_from_tables                                                    *)
(***************************************************************************)
\* header = [clean_text(h) for h in table_data[0] if h]
TableHeader(table_data) ==
    LET present == SelectSeq(table_data[1], LAMBDA h : h # <<>>)
    IN  [k \in DOMAIN present |-> clean_text(present[k])]

\* table.get_cell_bbox((row, col)), rows and columns counted from 0
CellBBox(table, row, col) ==
    <<table.origin[1] + col * table.cell_w, table.origin[2] + row * table.cell_h,
      table.origin[1] + (col + 1) * table.cell_w, table.origin[2] + (row + 1) * table.cell_h>>

\* the records of table number tno from cell c of row r of table_data on (both
\* from 1, r = 2 is the first data row); a get_cell_bbox that raises leaves
\* the table with the records appended so far
RECURSIVE TableRecordsFrom(_, _, _, _, _)
TableRecordsFrom(table, tno, r, c, page_num) ==
    IF r > Len(table.data) THEN <<>>
    ELSE IF c > Len(table.data[r]) THEN TableRecordsFrom(table, tno, r + 1, 1, page_num)
    ELSE Bind(<<TableHeader(table.data), clean_value(table.data[r][c])>>,
              LAMBDA hv :
                  LET header == hv[1]
                      value == hv[2]
                      emits == /\ table.data[r][c] # <<>>
                               /\ c <= Len(header)
                               /\ header[c] # <<>>
                               /\ value # <<>>
                               /\ ~IsFormFillLine(value)
                  IN  IF ~emits THEN TableRecordsFrom(table, tno, r, c + 1, page_num)
                      ELSE IF <<r - 1, c - 1>> \in table.bbox_faults THEN <<>>
                      ELSE <<Record(<<"T","a","b","l","e"," ">> \o IntToStr(tno) \o <<" ","-"," ">> \o header[c],
                                    value, page_num, CellBBox(table, r - 1, c - 1),
                                    "Table")>>
                           \o TableRecordsFrom(table, tno, r, c + 1, page_num))

ExtractFromTables(page, page_num) ==
    IF page.find_tables_fault THEN <<>>
    ELSE Flatten([k \in DOMAIN page.tables |->
                     \* no records when extract() raises or there is no data row
                     IF page.tables[k].extract_fault \/ Len(page.tables[k].data) < 2
                     THEN <<>>
                     ELSE TableRecordsFrom(page.tables[k], k, 2, 1, page_num)])

(***************************************************************************)
(* _find_value_for_label                                                   *)
(***************************************************************************)
RightSearch(label_rect) ==
    <<label_rect[3] + 2, label_rect[2] - 3, label_rect[3] + 300, label_rect[4] + 3>>

BelowSearch(label_rect) ==
    <<label_rect[1] - 20, label_rect[4], label_rect[3] + 300, label_rect[4] + 30>>

\* the candidate test without the test of processed_indices
IsCandidateAnyToken(label_rect, all_words, processed_indices, i) ==
    \E word_text \in {Strip(all_words[i][5])} :
        /\ word_text # <<>>
        /\ ~IsFormFillLine(word_text)
        /\ ~IsCheckboxMarker(word_text)
        /\ word_text[Len(word_text)] # ":"
        /\ \/ RectIntersects(WordRect(all_words[i]), RightSearch(label_rect))
           \/ RectIntersects(WordRect(all_words[i]), BelowSearch(label_rect))

\* word i is a candidate value word for the label
IsCandidate(label_rect, all_words, processed_indices, i) ==
    \E word_text \in {Strip(all_words[i][5])} :
        /\ i \notin processed_indices
        /\ word_text # <<>>
        /\ ~IsFormFillLine(word_text)
        /\ ~IsCheckboxMarker(word_text)
        /\ word_text[Len(word_text)] # ":"
        /\ \/ RectIntersects(WordRect(all_words[i]), RightSearch(label_rect))
           \/ RectIntersects(WordRect(all_words[i]), BelowSearch(label_rect))

\* x * 2^n modulo m, for n a multiple of 7 and m below 2^24 (seven bits at
\* a time, which keeps every product below 2^31)
RECURSIVE MulPow2Mod(_, _, _)
MulPow2Mod(x, n, m) == IF n = 0 THEN x % m ELSE (128 * MulPow2Mod(x, n - 7, m)) % m

\* A binary64 distance is held as <<tenths, err>>: the number
\* tenths / 10 + err * 2^-56 / 10.  RoundToDouble is the binary64 nearest to
\* such a number (ties to the even significand), as every float operation
\* of Python returns it.  The number lies in [2^(e-4), 2^(e-3)), where
\* binary64 values are 2^(e-56) apart, which is 10 * 2^e of the unit of err
\* (distances below 2^16, which no page reaches).
RoundToDouble(tenths, err) ==
    IF tenths = 0 THEN <<0, err>>
    ELSE LET AtLeast(k) == 8 * tenths > 5 * 2^k \/ (8 * tenths = 5 * 2^k /\ err >= 0)
             e == CHOOSE k \in 0..19 : AtLeast(k) /\ ~AtLeast(k + 1)
             ulp == 10 * 2^e
             r == (MulPow2Mod(tenths, 56, ulp) + err) % ulp
             odd == (MulPow2Mod(tenths, 56, 2 * ulp) + err) % (2 * ulp) >= ulp
             up == 2 * r > ulp \/ (2 * r = ulp /\ odd)
         IN  <<tenths, err - r + (IF up THEN ulp ELSE 0)>>

\* min(distance_right, distance_below) of a candidate, as <<tenths, err>>.
\* distance_right is a difference of coordinates; distance_below is
\* abs(dy) + abs(dx) * 0.1 in binary64, the literal 0.1 being the binary64
\* 0.1 + 4 * 2^-56 / 10
MinDistance(label_rect, word) ==
    IF RectIntersects(WordRect(word), RightSearch(label_rect))
    THEN <<10 * (word[1] - label_rect[3]), 0>>
    ELSE LET dy == Abs(word[2] - label_rect[4])
             dx == Abs(word[1] - label_rect[1])
             tenth_dx == IF dx = 0 THEN <<0, 0>> ELSE RoundToDouble(dx, 4 * dx)
         IN  IF dy = 0 THEN tenth_dx ELSE RoundToDouble(10 * dy + dx, tenth_dx[2])

\* list.sort by the distance of <<distance, index>> pairs: x goes after the
\* pairs whose distance is less than or equal to its own
RECURSIVE InsertByDistance(_, _)
InsertByDistance(sorted, x) ==
    IF sorted = <<>> THEN <<x>>
    ELSE IF \/ Head(sorted)[1][1] < x[1][1]
            \/ Head(sorted)[1][1] = x[1][1] /\ Head(sorted)[1][2] <= x[1][2]
         THEN <<Head(sorted)>> \o InsertByDistance(Tail(sorted), x)
         ELSE <<x>> \o sorted

RECURSIVE SortByDistance(_)
SortByDistance(pairs) ==
    IF pairs = <<>> THEN <<>>
    ELSE InsertByDistance(SortByDistance(SubSeq(pairs, 1, Len(pairs) - 1)),
                          pairs[Len(pairs)])

\* candidates.sort(key=lambda x: x[0]), as pairs <<distance, index>>
SortedCandidates(label_rect, all_words, processed_indices) ==
    SortByDistance(
        SelectSeq([i \in DOMAIN all_words |-> <<MinDistance(label_rect, all_words[i]), i>>],
                  LAMBDA c : IsCandidate(label_rect, all_words, processed_indices, c[2])))

\* the word at rect continues the value that ends at last_rect
IsConsecutive(rect, last_rect) ==
    Abs(rect[1] - last_rect[3]) < 20 /\ Abs(rect[2] - last_rect[2]) < 5

\* the indices collected from the sorted candidates k, k+1, ... after a word
\* at last_rect
RECURSIVE CollectFrom(_, _, _, _)
CollectFrom(candidates, k, last_rect, all_words) ==
    IF k > Len(candidates) THEN <<>>
    ELSE LET rect == WordRect(all_words[candidates[k][2]])
         IN  IF IsConsecutive(rect, last_rect)
             THEN <<candidates[k][2]>> \o CollectFrom(candidates, k + 1, rect, all_words)
             ELSE <<>>

\* the indices of the words that make the value
ValueIndices(label_rect, all_words, processed_indices) ==
    Bind(SortedCandidates(label_rect, all_words, processed_indices),
         LAMBDA candidates :
             IF candidates = <<>> THEN <<>>
             ELSE <<candidates[1][2]>>
                  \o CollectFrom(candidates, 2, WordRect(all_words[candidates[1][2]]),
                                 all_words))

\* the returned value and processed_indices after the call
FindValueForLabel(label_rect, all_words, processed_indices) ==
    Bind(ValueIndices(label_rect, all_words, processed_indices),
         LAMBDA idx :
             [value |-> Join([k \in DOMAIN idx |-> Strip(all_words[idx[k]][5])]),
              processed_indices |-> processed_indices \cup Range(idx)])

(***************************************************************************)
(* _find_checkbox_options_for_category                                     *)
(***************************************************************************)
\* the first index satisfying P, 0 when none
FirstIndex(all_words, P(_)) ==
    IF \E i \in DOMAIN all_words : P(i)
    THEN CHOOSE i \in DOMAIN all_words : P(i) /\ \A j \in 1..(i - 1) : ~P(j)
    ELSE 0

OptionSearchArea(word_rect) ==
    <<word_rect[1] - 30, word_rect[2] - 5, word_rect[3] + 30, word_rect[4] + 5>>

\* the first unprocessed word whose text is the option, 0 when none
OptionWord(option, all_words, processed_indices) ==
    FirstIndex(all_words,
        LAMBDA i : i \notin processed_indices /\ Strip(all_words[i][5]) = option)

\* the first marker word in the search area of option word i, consumed or not
MarkerWordAnyToken(i, all_words, processed_indices) ==
    FirstIndex(all_words,
        LAMBDA j : /\ j # i
                   /\ RectIntersects(WordRect(all_words[j]),
                                     OptionSearchArea(WordRect(all_words[i])))
                   /\ IsCheckboxMarker(Strip(all_words[j][5])))

\* the first unprocessed marker word in the search area of option word i
MarkerWord(i, all_words, processed_indices) ==
    FirstIndex(all_words,
        LAMBDA j : /\ j # i
                   /\ j \notin processed_indices
                   /\ RectIntersects(WordRect(all_words[j]),
                                     OptionSearchArea(WordRect(all_words[i])))
                   /\ IsCheckboxMarker(Strip(all_words[j][5])))

\* the options of one group from option k on: [results, processed_indices]
RECURSIVE CheckboxOptionsFrom(_, _, _, _, _)
CheckboxOptionsFrom(category_words, k, all_words, processed_indices, page_num) ==
    IF k > Len(category_words)
    THEN [results |-> <<>>, processed_indices |-> processed_indices]
    ELSE Bind(OptionWord(category_words[k], all_words, processed_indices),
         LAMBDA i :
             IF i = 0
             THEN CheckboxOptionsFrom(category_words, k + 1, all_words,
                                      processed_indices, page_num)
             ELSE Bind(MarkerWord(i, all_words, processed_indices),
                  LAMBDA j :
                  Bind(CheckboxOptionsFrom(category_words, k + 1, all_words,
                           processed_indices \cup {i} \cup (IF j = 0 THEN {} ELSE {j}),
                           page_num),
                  LAMBDA rest :
                      [results |->
                           <<Record(category_words[k] \o <<" ","(","c","h","e","c","k","b","o","x",")">>,
                                    IF j = 0 THEN <<"N","o","t"," ","c","h","e","c","k","e","d">> ELSE <<"C","h","e","c","k","e","d">>,
                                    page_num,
                                    WordRect(all_words[IF j = 0 THEN i ELSE j]),
                                    "Checkbox Option")>> \o rest.results,
                       processed_indices |-> rest.processed_indices])))

FindCheckboxOptionsForCategory(category_words, all_words, processed_indices, page_num) ==
    CheckboxOptionsFrom(category_words, 1, all_words, processed_indices, page_num)

(***************************************************************************)
(* _find_compound_labels                                                   *)
(***************************************************************************)
compound_patterns == <<
    <<<<"P","a","s","s","p","o","r","t">>, <<"N","o",".">>>>,
    <<<<"I",".","D">>, <<"C","a","r","d">>, <<"N","o",".">>>>,
    <<<<"D","a","t","e">>, <<"o","f">>, <<"B","i","r","t","h">>>>,
    <<<<"L","e","v","e","l">>, <<"o","f">>, <<"E","d","u","c","a","t","i","o","n">>>>,
    <<<<"N","o">>, <<"o","f">>, <<"D","e","p","e","n","d","a","n","t","s">>>>,
    <<<<"R","e","s","i","d","e","n","t","i","a","l">>, <<"A","d","d","r","e","s","s">>>>,
    <<<<"P","e","r","i","o","d">>, <<"o","f">>, <<"r","e","s","i","d","e","n","c","e">>>>,
    <<<<"G","r","o","s","s">>, <<"m","o","n","t","h","l","y">>, <<"i","n","c","o","m","e">>>>,
    <<<<"N","e","t">>, <<"m","o","n","t","h","l","y">>, <<"i","n","c","o","m","e">>>>,
    <<<<"O","t","h","e","r">>, <<"m","o","n","t","h","l","y">>, <<"i","n","c","o","m","e">>>>,
    <<<<"M","o","n","t","h","l","y">>, <<"s","a","l","a","r","y">>, <<"d","a","t","e">>>>,
    <<<<"A","c","c","o","u","n","t">>, <<"n","u","m","b","e","r">>>>,
    <<<<"T","i","m","e">>, <<"w","i","t","h">>, <<"c","u","r","r","e","n","t">>, <<"b","a","n","k">>>>,
    <<<<"E","x","p","i","r","y">>, <<"d","a","t","e">>>>,
    <<<<"P","r","e","s","e","n","t">>, <<"b","a","l","a","n","c","e">>>>,
    <<<<"B","a","n","k">>, <<"N","a","m","e">>>>,
    <<<<"A","c","c","o","u","n","t">>, <<"N","a","m","e">>>>,
    <<<<"F","u","l","l">>, <<"n","a","m","e">>>>,
    <<<<"T","e","l">>, <<"N","o",".">>>>,
    <<<<"T","e","l">>, <<"N","o","s",".">>>>,
    <<<<"N","e","x","t">>, <<"o","f">>, <<"K","i","n">>>>,
    <<<<"L","o","a","n">>, <<"A","m","o","u","n","t">>, <<"R","e","q","u","i","r","e","d">>>>,
    <<<<"T","e","r","m">>, <<"p","r","e","f","e","r","r","e","d">>>>,
    <<<<"L","o","a","n">>, <<"P","u","r","p","o","s","e">>>>,
    <<<<"C","o","p","y">>, <<"D","o","c","u","m","e","n","t","s">>, <<"R","e","q","u","i","r","e","d">>>>,
    <<<<"D","i","r","e","c","t">>, <<"D","e","b","i","t">>, <<"A","u","t","h","o","r","i","t","y">>>>,
    <<<<"A","c","c","o","u","n","t">>, <<"n","u","m","b","e","r">>, <<"t","o">>, <<"b","e">>, <<"d","e","b","i","t","e","d">>>>,
    <<<<"E","m","p","l","o","y","e","r","'","s">>, <<"n","a","m","e">>, <<"a","n","d">>, <<"a","d","d","r","e","s","s">>>>,
    <<<<"P","e","r","i","o","d">>, <<"i","n">>, <<"c","u","r","r","e","n","t">>, <<"e","m","p","l","o","y","m","e","n","t">>>>,
    <<<<"C","u","r","r","e","n","t">>, <<"o","r">>, <<"p","r","e","v","i","o","u","s">>, <<"c","r","e","d","i","t">>, <<"f","a","c","i","l","i","t","i","e","s">>>>,
    <<<<"F","a","c","i","l","i","t","i","e","s">>, <<"w","i","t","h">>, <<"o","t","h","e","r">>, <<"B","a","n","k">>>>,
    <<<<"N","a","m","e">>, <<"a","n","d">>, <<"r","e","s","i","d","e","n","t","i","a","l">>, <<"a","d","d","r","e","s","s">>>>,
    <<<<"O","f","f","i","c","e","r","'","s">>, <<"N","a","m","e">>>>,
    <<<<"A","p","p","r","o","v","i","n","g">>, <<"M","a","n","a","g","e","r","'","s">>, <<"n","a","m","e">>>>
>>

\* the pattern matches the unprocessed words i, i+1, ...
PatternMatchesAt(pattern, all_words, processed_indices, i) ==
    \A j \in DOMAIN pattern :
        /\ i + j - 1 <= Len(all_words)
        /\ (i + j - 1) \notin processed_indices
        /\ Lower(Strip(all_words[i + j - 1][5])) = Lower(pattern[j])

\* the first position in range(len(all_words) - len(pattern) + 1) where the
\* pattern matches, 0 when none
PatternPosition(pattern, all_words, processed_indices) ==
    FirstIndex(all_words,
        LAMBDA i : /\ i <= Len(all_words) - Len(pattern) + 1
                   /\ i \notin processed_indices
                   /\ PatternMatchesAt(pattern, all_words, processed_indices, i))

\* found_labels and processed_indices from pattern k on
RECURSIVE CompoundLabelsFrom(_, _, _)
CompoundLabelsFrom(k, all_words, processed_indices) ==
    IF k > Len(compound_patterns)
    THEN [found_labels |-> <<>>, processed_indices |-> processed_indices]
    ELSE Bind(PatternPosition(compound_patterns[k], all_words, processed_indices),
         LAMBDA i :
             IF i = 0 THEN CompoundLabelsFrom(k + 1, all_words, processed_indices)
             ELSE LET pattern == compound_patterns[k]
                      matched_indices == i..(i + Len(pattern) - 1)
                      first_word == all_words[i]
                      last_word == all_words[i + Len(pattern) - 1]
                      info == [text |-> Join(pattern),
                               rect |-> <<first_word[1], first_word[2],
                                          last_word[3], last_word[4]>>,
                               indices |-> matched_indices]
                  IN  Bind(CompoundLabelsFrom(k + 1, all_words,
                                              processed_indices \cup matched_indices),
                           LAMBDA rest :
                               [found_labels |-> <<info>> \o rest.found_labels,
                                processed_indices |-> rest.processed_indices]))

FindCompoundLabels(all_words, processed_indices) ==
    CompoundLabelsFrom(1, all_words, processed_indices)

(***************************************************************************)
(* _extract_spatial_data, in its four parts.  st is the state threaded     *)
(* through a part: [results, processed_indices, processed_keys].           *)
(***************************************************************************)
checkbox_groups == <<
    <<<<"M","r">>, <<"M","r","s">>, <<"M","i","s","s">>, <<"M","s">>>>,
    <<<<"M","a","r","r","i","e","d">>, <<"S","i","n","g","l","e">>>>,
    <<<<"M","a","l","e">>, <<"F","e","m","a","l","e">>>>,
    <<<<"Y","e","s">>, <<"N","o">>>>
>>

single_labels == <<
    <<"T","i","t","l","e">>, <<"S","u","r","n","a","m","e">>, <<"F","o","r","e","n","a","m","e">>, <<"F","o","r","e","n","a","m","e","s">>, <<"N","a","t","i","o","n","a","l","i","t","y">>,
    <<"A","d","d","r","e","s","s">>, <<"T","e","l">>, <<"C","e","l","l">>, <<"E","m","a","i","l">>, <<"B","r","a","n","c","h">>, <<"N","a","m","e">>,
    <<"E","m","p","l","o","y","e","r">>, <<"O","c","c","u","p","a","t","i","o","n">>, <<"I","n","c","o","m","e">>, <<"P","u","r","p","o","s","e">>, <<"S","i","g","n","a","t","u","r","e">>,
    <<"D","e","p","e","n","d","a","n","t","s">>, <<"A","c","c","o","m","o","d","a","t","i","o","n">>, <<"R","e","n","t">>, <<"M","o","r","t","g","a","g","e">>, <<"R","e","p","a","y","m","e","n","t">>,
    <<"L","i","m","i","t">>, <<"R","e","p","a","y","m","e","n","t","s">>, <<"R","e","l","a","t","i","o","n","s","h","i","p">>, <<"D","e","c","l","a","r","a","t","i","o","n">>
>>

\* the merge without the key test: every item appended
MergeAll(results, processed_keys, items) ==
    [results |-> results \o items,
     processed_keys |-> processed_keys \cup {items[k].key : k \in DOMAIN items}]

\* the merge putting the new items in front of the earlier ones
MergeInFront(results, processed_keys, items) ==
    [results |-> items \o results,
     processed_keys |-> processed_keys \cup {items[k].key : k \in DOMAIN items}]

\* for item in items: appended unless its key is in processed_keys
RECURSIVE MergeNew(_, _, _)
MergeNew(results, processed_keys, items) ==
    IF items = <<>> THEN [results |-> results, processed_keys |-> processed_keys]
    ELSE IF Head(items).key \in processed_keys
         THEN MergeNew(results, processed_keys, Tail(items))
         ELSE MergeNew(Append(results, Head(items)),
                       processed_keys \cup {Head(items).key}, Tail(items))

\* 1. checkbox groups, from group k on
RECURSIVE SpatialCheckboxes(_, _, _, _)
SpatialCheckboxes(k, all_words, page_num, st) ==
    IF k > Len(checkbox_groups) THEN st
    ELSE Bind(FindCheckboxOptionsForCategory(checkbox_groups[k], all_words,
                                             st.processed_indices, page_num),
         LAMBDA found :
         Bind(MergeNew(st.results, st.processed_keys, found.results),
         LAMBDA merged :
             SpatialCheckboxes(k + 1, all_words, page_num,
                 [results |-> merged.results,
                  processed_indices |-> found.processed_indices,
                  processed_keys |-> merged.processed_keys])))

\* the rectangle stored with a label's value: the label widened by 100
LabelCoords(rect) == <<rect[1], rect[2], rect[3] + 100, rect[4]>>

\* 2. the values of the compound labels, from label k on
RECURSIVE CompoundValues(_, _, _, _, _)
CompoundValues(found_labels, k, all_words, page_num, st) ==
    IF k > Len(found_labels) THEN st
    ELSE LET label_info == found_labels[k]
             key == label_info.text
         IN  IF key \in st.processed_keys
             THEN CompoundValues(found_labels, k + 1, all_words, page_num, st)
             ELSE Bind(FindValueForLabel(label_info.rect, all_words, st.processed_indices),
                  LAMBDA found :
                  Bind(IF found.value # <<>>
                       THEN [results |-> Append(st.results,
                                 Record(key, found.value, page_num,
                                        LabelCoords(label_info.rect), "Compound Label")),
                             processed_indices |-> found.processed_indices,
                             processed_keys |-> st.processed_keys \cup {key}]
                       ELSE [st EXCEPT !.processed_indices = found.processed_indices],
                  LAMBDA next :
                      CompoundValues(found_labels, k + 1, all_words, page_num, next)))

SpatialCompound(all_words, page_num, st) ==
    Bind(FindCompoundLabels(all_words, st.processed_indices),
         LAMBDA compound :
             CompoundValues(compound.found_labels, 1, all_words, page_num,
                 [st EXCEPT !.processed_indices = compound.processed_indices]))

\* str.isdigit() for the characters of the model
IsDigit(s) == s # <<>> /\ \A k \in DOMAIN s : s[k] \in Range(Digits)

\* 3. the labels ending with a colon, from word i on
RECURSIVE SpatialColon(_, _, _, _)
SpatialColon(i, all_words, page_num, st) ==
    IF i > Len(all_words) THEN st
    ELSE Bind(<<Strip(all_words[i][5]), clean_text(Strip(all_words[i][5]))>>,
         LAMBDA tk :
             LET word_text == tk[1]
                 key == tk[2]
                 word_rect == WordRect(all_words[i])
             IN  IF /\ i \notin st.processed_indices
                    /\ Len(word_text) > 1
                    /\ word_text[Len(word_text)] = ":"
                    /\ key # <<>>
                    /\ key \notin st.processed_keys
                    /\ ~IsDigit(key)
                 THEN Bind(FindValueForLabel(word_rect, all_words, st.processed_indices),
                      LAMBDA found :
                      Bind(IF found.value # <<>>
                           THEN [results |-> Append(st.results,
                                     Record(key, found.value, page_num,
                                            LabelCoords(word_rect), "Form Field")),
                                 processed_indices |-> found.processed_indices \cup {i},
                                 processed_keys |-> st.processed_keys \cup {key}]
                           ELSE [st EXCEPT !.processed_indices = found.processed_indices],
                      LAMBDA next : SpatialColon(i + 1, all_words, page_num, next)))
                 ELSE SpatialColon(i + 1, all_words, page_num, st))

\* any(label.lower() in key.lower() for key in processed_keys)
LabelCovered(label, processed_keys) ==
    \E key \in processed_keys : Contains(Lower(key), Lower(label))

\* the scan of one standalone label, from word i on
RECURSIVE StandaloneScan(_, _, _, _, _)
StandaloneScan(label, i, all_words, page_num, st) ==
    IF i > Len(all_words) THEN st
    ELSE IF /\ i \notin st.processed_indices
            /\ Lower(Strip(all_words[i][5])) = Lower(label)
         THEN Bind(FindValueForLabel(WordRect(all_words[i]), all_words,
                                     st.processed_indices),
              LAMBDA found :
                  IF found.value # <<>>
                  THEN IF label \notin st.processed_keys
                       THEN [results |-> Append(st.results,
                                 Record(label, found.value, page_num,
                                        LabelCoords(WordRect(all_words[i])),
                                        "Label Match")),
                             processed_indices |-> found.processed_indices \cup {i},
                             processed_keys |-> st.processed_keys \cup {label}]
                       ELSE [st EXCEPT !.processed_indices = found.processed_indices]
                  ELSE Bind([st EXCEPT !.processed_indices = found.processed_indices],
                            LAMBDA next :
                                StandaloneScan(label, i + 1, all_words, page_num, next)))
         ELSE StandaloneScan(label, i + 1, all_words, page_num, st)

\* 4. the standalone labels, from label k on
RECURSIVE SpatialStandalone(_, _, _, _)
SpatialStandalone(k, all_words, page_num, st) ==
    IF k > Len(single_labels) THEN st
    ELSE IF LabelCovered(single_labels[k], st.processed_keys)
         THEN SpatialStandalone(k + 1, all_words, page_num, st)
         ELSE Bind(StandaloneScan(single_labels[k], 1, all_words, page_num, st),
                   LAMBDA next : SpatialStandalone(k + 1, all_words, page_num, next))

\* _extract_spatial_data(page, processed_keys): [results, processed_indices,
\* processed_keys] at its return
ExtractSpatialData(all_words, page_num, processed_keys) ==
    Bind(SpatialCheckboxes(1, all_words, page_num,
             [results |-> <<>>, processed_indices |-> {},
              processed_keys |-> processed_keys]),
         LAMBDA checked :
    Bind(SpatialCompound(all_words, page_num, checked),
         LAMBDA compound :
    Bind(SpatialColon(1, all_words, page_num, compound),
         LAMBDA colon :
             SpatialStandalone(1, all_words, page_num, colon))))
(***************************************************************************)
(* The normalizers applied to bounded input strings.                       *)
(***************************************************************************)
Alphabet == {"_", ".", ":", "(", "]", "|", "a", "1", " "}

RECURSIVE StringsOfLen(_)
StringsOfLen(n) ==
    IF n = 0 THEN {<<>>}
    ELSE {Append(s, c) : s \in StringsOfLen(n - 1), c \in Alphabet}

Strings == UNION {StringsOfLen(n) : n \in 0..MaxLen}

CleanStart ==
    /\ c_in \in Strings
    /\ c_fn = "none"
    /\ c_out1 = <<>>
    /\ c_out2 = <<>>

ApplyCleanValue ==
    /\ c_fn = "none"
    /\ c_fn' = "clean_value"
    /\ c_out1' = clean_value(c_in)
    /\ c_out2' = clean_value(clean_value(c_in))
    /\ UNCHANGED c_in
    /\ UNCHANGED otherThanClean

ApplyCleanText ==
    /\ c_fn = "none"
    /\ c_fn' = "clean_text"
    /\ c_out1' = clean_text(c_in)
    /\ c_out2' = clean_text(clean_text(c_in))
    /\ UNCHANGED c_in
    /\ UNCHANGED otherThanClean

ApplyExtractorCleanValue ==
    /\ c_fn = "none"
    /\ c_fn' = "_clean_value"
    /\ c_out1' = Extractor_clean_value(c_in)
    /\ c_out2' = Extractor_clean_value(Extractor_clean_value(c_in))
    /\ UNCHANGED c_in
    /\ UNCHANGED otherThanClean

\* the normalizers are not in use
CleanIdle ==
    /\ c_in = <<>>
    /\ c_fn = "idle"
    /\ c_out1 = <<>>
    /\ c_out2 = <<>>

CleanNext == ApplyCleanValue \/ ApplyCleanText \/ ApplyExtractorCleanValue


(***************************************************************************)
(* find_all_fields_on_page as a state machine: one step per iteration of   *)
(* the `while i < len(line_words)` loop.  Lines and positions count from 1.*)
(* t_matches is the history of the label matches made so far (the locals   *)
(* found_label, field_name, value_words and value_text of each iteration   *)
(* that found a label).                                                    *)
(***************************************************************************)
\* printed lines a page is composed of; y0 and y1 are relative to the line
TLinePool == <<
    <<>>,
    << <<0, 0, 40, 10, <<"S","u","r","n","a","m","e",":">>>>, <<45, 0, 80, 10, <<"S","m","i","t","h">>>> >>,
    << <<0, 0, 30, 10, <<"D","O","B",":">>>>, <<35, 0, 100, 10, <<"0","1","/","0","2","/","1","9","9","0">>>> >>,
    << <<0, 0, 15, 10, <<"T","e","l">>>>, <<18, 0, 40, 10, <<"N","o",".",":">>>>, <<45, 0, 90, 10, <<"5","5","5","-","1","2","3","4">>>> >>,
    << <<0, 0, 15, 10, <<"T","e","l">>>>, <<18, 0, 40, 10, <<"N","o",".">>>>, <<45, 0, 90, 10, <<"5","5","5","-","1","2","3","4">>>> >>,
    << <<0, 0, 30, 10, <<"N","a","m","e",":">>>>, <<35, 0, 60, 10, <<"J","o","h","n">>>>,
       <<80, 0, 105, 10, <<"D","O","B",":">>>>, <<110, 0, 135, 10, <<"1","9","9","0">>>> >>,
    << <<0, 0, 30, 10, <<"T","i","t","l","e",":">>>> >>,
    << <<0, 0, 25, 10, <<"F","a","x",":">>>> >>,
    << <<0, 0, 30, 10, <<"N","a","m","e",":">>>>, <<35, 0, 55, 10, <<"B","o","b">>>> >>,
    << <<0, 0, 30, 10, <<"N","a","m","e",":">>>>, <<35, 0, 90, 10, <<"_","_","_","_","_">>>> >>,
    << <<5, 0, 30, 10, <<"M","a","i","n">>>>, <<33, 0, 45, 10, <<"S","t">>>> >>,
    << <<0, 2, 40, 12, <<"S","u","r","n","a","m","e",":">>>>, <<45, 3, 80, 13, <<"J","o","n","e","s">>>> >>
>>

LinePitch == 20

\* the words of one pool line printed at vertical offset base
PlaceLine(line, base) ==
    [k \in DOMAIN line |->
        <<line[k][1], base + line[k][2], line[k][3], base + line[k][4], line[k][5]>>]

\* page.get_text("words") of the page printing the pool lines ls in order
RECURSIVE PageWords(_, _)
PageWords(ls, n) ==
    IF n = 0 THEN <<>>
    ELSE PageWords(ls, n - 1) \o PlaceLine(TLinePool[ls[n]], LinePitch * (n - 1))

TPages ==
    {PageWords(ls, Len(ls)) :
        ls \in UNION {[1..n -> DOMAIN TLinePool] : n \in 0..MaxLines}}

TConfigs == {
    << [name |-> <<"S","u","r","n","a","m","e">>, label |-> <<"S","u","r","n","a","m","e",":">>, instance |-> 0],
       [name |-> <<"D","O","B">>, label |-> <<"D","O","B",":">>, instance |-> 0] >>,
    << [name |-> <<"T","e","l">>, label |-> <<"T","e","l">>, instance |-> 0],
       [name |-> <<"T","e","l"," ","N","o">>, label |-> <<"T","e","l"," ","N","o",".">>, instance |-> 0] >>,
    << [name |-> <<"N","a","m","e">>, label |-> <<"N","a","m","e",":">>, instance |-> 0],
       [name |-> <<"D","O","B">>, label |-> <<"D","O","B",":">>, instance |-> 0],
       [name |-> <<"T","i","t","l","e">>, label |-> <<"T","i","t","l","e",":">>, instance |-> 0],
       [name |-> <<"F","a","x">>, label |-> <<"F","a","x",":">>, instance |-> 0] >>
}

TLineWords == LineWords(t_words, SortedLineKeys(t_words)[t_line])

TemplateStart ==
    /\ t_words \in TPages
    /\ t_fields \in TConfigs
    /\ t_pc = "start"
    /\ t_line = 0
    /\ t_i = 0
    /\ t_results = <<>>
    /\ t_matches = <<>>

\* if not words: return []
TReturnEmpty ==
    /\ t_pc = "start"
    /\ t_words = <<>>
    /\ t_pc' = "done"
    /\ UNCHANGED <<t_words, t_fields, t_line, t_i, t_results, t_matches>>
    /\ UNCHANGED otherThanTemplate

\* entering the loop over sorted_lines
TBegin ==
    /\ t_pc = "start"
    /\ t_words # <<>>
    /\ t_pc' = "scan"
    /\ t_line' = 1
    /\ t_i' = 1
    /\ UNCHANGED <<t_words, t_fields, t_results, t_matches>>
    /\ UNCHANGED otherThanTemplate

\* a label is found at position i: its value is extracted and stored
TMatchLabel ==
    /\ t_pc = "scan"
    /\ t_i <= Len(TLineWords)
    /\ LET all_labels == AllLabels(t_fields)
           found_label == FoundLabel(TLineWords, t_i, all_labels)
       IN  /\ found_label # <<>>
           /\ LET matched_word_count == Len(Split(found_label))
                  start_index == t_i + matched_word_count
                  value_words == ValueWords(t_words, t_line, t_i, found_label, all_labels)
                  value_text == Extractor_clean_value(
                                    Join([k \in DOMAIN value_words |-> value_words[k][5]]))
                  field_name == FieldName(t_fields, found_label)
                  value_rect == ValueRect(value_words, TLineWords[start_index - 1])
                  stored == StoreResult(value_text, field_name)
              IN  /\ t_results' = IF stored
                                  THEN DictPut(t_results, field_name, value_text, value_rect)
                                  ELSE t_results
                  /\ t_i' = start_index + ConsumedOnLine(value_words, TLineWords, start_index)
                  /\ t_matches' = Append(t_matches,
                        [found_label |-> found_label, field_name |-> field_name,
                         line |-> t_line, pos |-> t_i,
                         value_words |-> value_words, value_text |-> value_text,
                         stored |-> stored])
    /\ UNCHANGED <<t_words, t_fields, t_pc, t_line>>
    /\ UNCHANGED otherThanTemplate

\* no label starts at position i: i += 1
TSkipWord ==
    /\ t_pc = "scan"
    /\ t_i <= Len(TLineWords)
    /\ FoundLabel(TLineWords, t_i, AllLabels(t_fields)) = <<>>
    /\ t_i' = t_i + 1
    /\ UNCHANGED <<t_words, t_fields, t_pc, t_line, t_results, t_matches>>
    /\ UNCHANGED otherThanTemplate

\* the line is exhausted: the next line of sorted_lines
TNextLine ==
    /\ t_pc = "scan"
    /\ t_i > Len(TLineWords)
    /\ t_line < Len(SortedLineKeys(t_words))
    /\ t_line' = t_line + 1
    /\ t_i' = 1
    /\ UNCHANGED <<t_words, t_fields, t_pc, t_results, t_matches>>
    /\ UNCHANGED otherThanTemplate

\* the last line is exhausted: return the list built from `results`
TReturn ==
    /\ t_pc = "scan"
    /\ t_i > Len(TLineWords)
    /\ t_line = Len(SortedLineKeys(t_words))
    /\ t_pc' = "done"
    /\ UNCHANGED <<t_words, t_fields, t_line, t_i, t_results, t_matches>>
    /\ UNCHANGED otherThanTemplate

\* the template parser is not in use
TemplateIdle ==
    /\ t_words = <<>>
    /\ t_fields = <<>>
    /\ t_pc = "idle"
    /\ t_line = 0
    /\ t_i = 0
    /\ t_results = <<>>
    /\ t_matches = <<>>

TemplateNext ==
    \/ TReturnEmpty
    \/ TBegin
    \/ TMatchLabel
    \/ TSkipWord
    \/ TNextLine
    \/ TReturn


(***************************************************************************)
(* extract_all as a state machine: per page the widget pass, the table     *)
(* pass and the four parts of the spatial pass.  page_no counts from 1     *)
(* (page.number is page_no - 1); processed_keys and all_results are the    *)
(* locals of extract_all, processed_indices and results the locals of      *)
(* _extract_spatial_data.  pc = "raised" is an exception leaving           *)
(* extract_all, pc = "done" its return of all_results.                     *)
(***************************************************************************)
\* the pages documents are composed of
PagePool ==
    LET NoTables == <<>>
        NoWidgets == <<>>
        Page(widgets, tables, words) ==
            [widgets |-> widgets, tables |-> tables, words |-> words,
             widgets_fault |-> FALSE, find_tables_fault |-> FALSE, words_fault |-> FALSE]
        Widget(field_name, field_type, field_value, rect) ==
            [field_name |-> field_name, field_type |-> field_type,
             field_value |-> field_value, rect |-> rect]
        Table(data, bbox_faults) ==
            [data |-> data, origin |-> <<0, 100>>, cell_w |-> 50, cell_h |-> 12,
             extract_fault |-> FALSE, bbox_faults |-> bbox_faults]
        NameJohnWords ==
            << <<0, 0, 30, 10, <<"N","a","m","e",":">>>>, <<35, 0, 60, 10, <<"J","o","h","n">>>> >>
        MaleFemaleWords ==
            << <<0, 0, 25, 10, <<"M","a","l","e">>>>, <<30, 0, 38, 10, <<"x">>>>,
               <<45, 0, 80, 10, <<"F","e","m","a","l","e">>>> >>
        StaffTable ==
            << <<<<"N","a","m","e">>, <<>>, <<"A","g","e">>>>,
               <<<<"A","n","n">>, <<"x","1">>, <<"3","0">>>>,
               <<<<"B","o","b">>, <<>>, <<"4","1">>>> >>
    IN  <<
    \* a text widget and a colon label with the same key
    Page(<<Widget(<<"N","a","m","e">>, "text", <<"B","o","b">>, <<35, 0, 100, 10>>)>>, NoTables, NameJohnWords),
    \* the colon label alone
    Page(NoWidgets, NoTables, NameJohnWords),
    \* a checkbox widget and the checkbox group printed on the page
    Page(<<Widget(<<"M","a","l","e">>, "checkbox", <<"O","f","f">>, <<28, 0, 40, 10>>)>>, NoTables,
         MaleFemaleWords),
    \* two radio buttons of one field, and the checkbox group
    Page(<<Widget(<<"S","e","x">>, "radio", <<"O","f","f">>, <<0, 20, 10, 30>>),
           Widget(<<"S","e","x">>, "radio", <<"Y","e","s">>, <<20, 20, 30, 30>>)>>, NoTables,
         MaleFemaleWords),
    \* a table with an empty header cell and two data rows
    Page(NoWidgets, <<Table(StaffTable, {})>>, <<>>),
    \* the same table, get_cell_bbox raising at its second data cell
    Page(NoWidgets, <<Table(StaffTable, {<<1, 1>>})>>,
         << <<0, 0, 40, 10, <<"S","u","r","n","a","m","e">>>>, <<45, 0, 75, 10, <<"S","m","i","t","h">>>> >>),
    \* find_tables raising, a standalone label on the page
    [Page(NoWidgets, NoTables,
          << <<0, 0, 40, 10, <<"S","u","r","n","a","m","e">>>>, <<45, 0, 75, 10, <<"S","m","i","t","h">>>> >>)
        EXCEPT !.find_tables_fault = TRUE],
    \* a compound label whose value is followed by a standalone label
    Page(NoWidgets, NoTables,
         << <<0, 0, 20, 10, <<"F","u","l","l">>>>, <<23, 0, 45, 10, <<"n","a","m","e">>>>,
            <<50, 0, 70, 10, <<"J","a","n","e">>>>, <<80, 0, 115, 10, <<"S","u","r","n","a","m","e">>>>,
            <<120, 0, 145, 10, <<"S","m","i","t","h">>>> >>),
    \* page.widgets() raising
    [Page(NoWidgets, NoTables, NameJohnWords) EXCEPT !.widgets_fault = TRUE],
    \* page.get_text("words") raising
    [Page(<<Widget(<<"B","r","a","n","c","h">>, "text", <<"N","o","r","t","h">>, <<0, 0, 50, 10>>)>>, NoTables, <<>>)
        EXCEPT !.words_fault = TRUE],
    \* a colon label whose value is printed in parentheses
    Page(NoWidgets, NoTables,
         << <<0, 0, 30, 10, <<"T","i","t","l","e",":">>>>, <<35, 0, 60, 10, <<"(","D","r",")">>>> >>),
    \* a standalone label with nothing to its right, printed above a colon
    \* label and its value
    Page(NoWidgets, NoTables,
         << <<0, 0, 40, 10, <<"S","u","r","n","a","m","e">>>>,
            <<0, 15, 30, 25, <<"N","a","m","e",":">>>>, <<35, 15, 60, 25, <<"J","o","h","n">>>> >>),
    \* two words below a colon label at the distances 0 + 12 * 0.1 and
    \* 1 + 2 * 0.1, which differ in binary64
    Page(NoWidgets, NoTables,
         << <<100, 100, 150, 110, <<"N","a","m","e",":">>>>, <<112, 110, 130, 120, <<"A">>>>,
            <<102, 111, 108, 121, <<"B">>>> >>)
    >>

Documents ==
    UNION {[1..n -> Range(PagePool)] : n \in 1..MaxPages}

ThisPage == d_doc[d_page_no]

DynStart ==
    /\ d_doc \in Documents
    /\ d_page_no = 1
    /\ d_pc = "widgets"
    /\ d_all_results = <<>>
    /\ d_processed_keys = {}
    /\ d_processed_indices = {}
    /\ d_results = <<>>

\* extract_all is not in use
DynIdle ==
    /\ d_doc = <<>>
    /\ d_page_no = 0
    /\ d_pc = "idle"
    /\ d_all_results = <<>>
    /\ d_processed_keys = {}
    /\ d_processed_indices = {}
    /\ d_results = <<>>

\* widget_data = self._extract_from_widgets(page) and its merge
ExtractWidgets ==
    /\ d_pc = "widgets"
    /\ ~ThisPage.widgets_fault
    /\ \E merged \in {MergeNew(d_all_results, d_processed_keys,
                              ExtractFromWidgets(ThisPage, d_page_no - 1))} :
           /\ d_all_results' = merged.results
           /\ d_processed_keys' = merged.processed_keys
    /\ d_pc' = "tables"
    /\ UNCHANGED <<d_doc, d_page_no, d_processed_indices, d_results>>
    /\ UNCHANGED otherThanDyn

\* page.widgets() raises: nothing in extract_all catches it
WidgetsFault ==
    /\ d_pc = "widgets"
    /\ ThisPage.widgets_fault
    /\ d_pc' = "raised"
    /\ UNCHANGED <<d_doc, d_page_no, d_all_results, d_processed_keys, d_processed_indices, d_results>>
    /\ UNCHANGED otherThanDyn

\* table_data = self._extract_from_tables(page) and its merge
ExtractTables ==
    /\ d_pc = "tables"
    /\ \E merged \in {MergeNew(d_all_results, d_processed_keys,
                              ExtractFromTables(ThisPage, d_page_no - 1))} :
           /\ d_all_results' = merged.results
           /\ d_processed_keys' = merged.processed_keys
    /\ d_pc' = "checkboxes"
    /\ UNCHANGED <<d_doc, d_page_no, d_processed_indices, d_results>>
    /\ UNCHANGED otherThanDyn

\* page.get_text("words") raises in _extract_spatial_data
WordsFault ==
    /\ d_pc = "checkboxes"
    /\ ThisPage.words_fault
    /\ d_pc' = "raised"
    /\ UNCHANGED <<d_doc, d_page_no, d_all_results, d_processed_keys, d_processed_indices, d_results>>
    /\ UNCHANGED otherThanDyn

\* the state threaded through the spatial pass
SpatialState ==
    [results |-> d_results, processed_indices |-> d_processed_indices,
     processed_keys |-> d_processed_keys]

\* _extract_spatial_data: get_text, processed_indices = set(), results = [],
\* 1. the checkbox groups
CheckboxGroups ==
    /\ d_pc = "checkboxes"
    /\ ~ThisPage.words_fault
    /\ \E st \in {SpatialCheckboxes(1, ThisPage.words, d_page_no - 1,
                     [results |-> <<>>, processed_indices |-> {},
                      processed_keys |-> d_processed_keys])} :
           /\ d_results' = st.results
           /\ d_processed_indices' = st.processed_indices
           /\ d_processed_keys' = st.processed_keys
    /\ d_pc' = "compound"
    /\ UNCHANGED <<d_doc, d_page_no, d_all_results>>
    /\ UNCHANGED otherThanDyn

\* 2. the compound labels
CompoundLabels ==
    /\ d_pc = "compound"
    /\ \E st \in {SpatialCompound(ThisPage.words, d_page_no - 1, SpatialState)} :
           /\ d_results' = st.results
           /\ d_processed_indices' = st.processed_indices
           /\ d_processed_keys' = st.processed_keys
    /\ d_pc' = "colon"
    /\ UNCHANGED <<d_doc, d_page_no, d_all_results>>
    /\ UNCHANGED otherThanDyn

\* 3. the labels ending with a colon
ColonLabels ==
    /\ d_pc = "colon"
    /\ \E st \in {SpatialColon(1, ThisPage.words, d_page_no - 1, SpatialState)} :
           /\ d_results' = st.results
           /\ d_processed_indices' = st.processed_indices
           /\ d_processed_keys' = st.processed_keys
    /\ d_pc' = "standalone"
    /\ UNCHANGED <<d_doc, d_page_no, d_all_results>>
    /\ UNCHANGED otherThanDyn

\* 4. the standalone labels, return results; all_results.extend(spatial_data);
\* the next page, or return all_results
StandaloneLabels ==
    /\ d_pc = "standalone"
    /\ \E st \in {SpatialStandalone(1, ThisPage.words, d_page_no - 1, SpatialState)} :
           /\ d_all_results' = d_all_results \o st.results
           /\ d_processed_indices' = st.processed_indices
           /\ d_processed_keys' = st.processed_keys
    /\ d_results' = <<>>
    /\ IF d_page_no < Len(d_doc)
       THEN d_pc' = "widgets" /\ d_page_no' = d_page_no + 1
       ELSE d_pc' = "done" /\ d_page_no' = d_page_no
    /\ UNCHANGED d_doc
    /\ UNCHANGED otherThanDyn

DynNext ==
    \/ ExtractWidgets
    \/ WidgetsFault
    \/ ExtractTables
    \/ WordsFault
    \/ CheckboxGroups
    \/ CompoundLabels
    \/ ColonLabels
    \/ StandaloneLabels

\* one iteration of `for page in doc`: [results, processed_keys], results
\* being what the iteration appends to all_results
ExtractPage(page, page_num, keys) ==
    Bind(MergeNew(<<>>, keys, ExtractFromWidgets(page, page_num)),
         LAMBDA w :
    Bind(MergeNew(w.results, w.processed_keys, ExtractFromTables(page, page_num)),
         LAMBDA t :
    Bind(ExtractSpatialData(page.words, page_num, t.processed_keys),
         LAMBDA s :
             [results |-> t.results \o s.results,
              processed_keys |-> s.processed_keys])))
(***************************************************************************)
(* The extractors as functions of a page or a document, as the processor   *)
(* calls them.                                                             *)
(***************************************************************************)
\* find_all_fields_on_page from position i of line line_idx on, `results`
\* being the dict built so far
RECURSIVE ScanFields(_, _, _, _, _)
ScanFields(words, fields_config, line_idx, i, results) ==
    IF line_idx > Len(SortedLineKeys(words)) THEN results
    ELSE Bind(LineWords(words, SortedLineKeys(words)[line_idx]),
         LAMBDA line_words :
         IF i > Len(line_words)
         THEN ScanFields(words, fields_config, line_idx + 1, 1, results)
         ELSE Bind(FoundLabel(line_words, i, AllLabels(fields_config)),
              LAMBDA found_label :
              IF found_label = <<>>
              THEN ScanFields(words, fields_config, line_idx, i + 1, results)
              ELSE Bind(ValueWords(words, line_idx, i, found_label,
                                   AllLabels(fields_config)),
                   LAMBDA value_words :
                   Bind(Extractor_clean_value(
                            Join([k \in DOMAIN value_words |-> value_words[k][5]])),
                   LAMBDA value_text :
                       LET start_index == i + Len(Split(found_label))
                           field_name == FieldName(fields_config, found_label)
                       IN  ScanFields(words, fields_config, line_idx,
                               start_index
                                   + ConsumedOnLine(value_words, line_words, start_index),
                               IF StoreResult(value_text, field_name)
                               THEN DictPut(results, field_name, value_text,
                                            ValueRect(value_words,
                                                      line_words[start_index - 1]))
                               ELSE results)))))

\* find_all_fields_on_page(page, fields_config): the list of the dict's values
FindAllFieldsOnPage(words, fields_config) ==
    IF words = <<>> THEN <<>> ELSE ScanFields(words, fields_config, 1, 1, <<>>)

\* extract_all from page n on: [raised, results, processed_keys]
RECURSIVE ExtractAllFrom(_, _, _)
ExtractAllFrom(pages, n, acc) ==
    IF n > Len(pages) THEN acc
    ELSE IF pages[n].widgets_fault \/ pages[n].words_fault
         THEN [acc EXCEPT !.raised = TRUE]
         ELSE Bind(ExtractPage(pages[n], n - 1, acc.processed_keys),
                   LAMBDA page :
                       ExtractAllFrom(pages, n + 1,
                           [raised |-> FALSE,
                            results |-> acc.results \o page.results,
                            processed_keys |-> page.processed_keys]))

\* extract_all(doc): the returned list, or raised
ExtractAll(pages) ==
    ExtractAllFrom(pages, 1, [raised |-> FALSE, results |-> <<>>, processed_keys |-> {}])

(***************************************************************************)
(* app/core/extractor.py: Extractor.find_checkbox_near_label               *)
(*                                                                         *)
(* The page carries the answers of the document engine: hits, the          *)
(* rectangles page.search_for returns per needle, as a sequence of         *)
(* [needle, rects]; drawings, the shapes of page.get_drawings(), each      *)
(* [has_rect, rect, text_in_box] with text_in_box the text the engine      *)
(* returns for the clip rect.  A result is [value, rect, raised]; rect     *)
(* <<>> is None.                                                           *)
(***************************************************************************)
\* label_instances after page.search_for(label) and, failing that,
\* page.search_for(label + ":"); page.hits holds the engine's answers
LabelInstances(page, label, instance) ==
    LET search_for(needle) ==
            IF \E k \in DOMAIN page.hits : page.hits[k].needle = needle
            THEN page.hits[CHOOSE k \in DOMAIN page.hits :
                               /\ page.hits[k].needle = needle
                               /\ \A m \in 1..(k - 1) : page.hits[m].needle # needle].rects
            ELSE <<>>
    IN  IF Len(search_for(label)) > instance
        THEN search_for(label)
        ELSE search_for(label \o <<":">>)

CheckboxResult(value, rect) == [value |-> value, rect |-> rect, raised |-> FALSE]

CheckboxSearchArea(label_rect, search_radius) ==
    <<label_rect[1] - search_radius, label_rect[2] - 5, label_rect[1] + 10, label_rect[4] + 5>>

\* Method 1: a marker glyph among the words intersecting the search area
MarkerMethod(page, label_rect, search_area) ==
    LET checkbox_markers == {<<"x">>, <<"X">>, <<"U2713">>, <<"U2714">>, <<"U2611">>,
                             <<"U2612">>, <<"U2717">>, <<"U2718">>}
        hit == FirstIndex(page.words,
                   LAMBDA k : /\ RectIntersects(WordRect(page.words[k]), search_area)
                              /\ Strip(page.words[k][5]) \in checkbox_markers)
    IN  IF hit = 0 THEN CheckboxResult(<<>>, <<>>)
        ELSE CheckboxResult(<<"C","h","e","c","k","e","d">>, WordRect(page.words[hit]))

\* the distance of the centres along x alone
CentreDistanceInX(r, label_rect) ==
    (label_rect[1] + label_rect[3] - r[1] - r[3]) * (label_rect[1] + label_rect[3] - r[1] - r[3])

\* four times the squared distance of the centres of r and label_rect
CentreDistance(r, label_rect) ==
    (label_rect[1] + label_rect[3] - r[1] - r[3]) * (label_rect[1] + label_rect[3] - r[1] - r[3])
    + (label_rect[2] + label_rect[4] - r[2] - r[4]) * (label_rect[2] + label_rect[4] - r[2] - r[4])

\* Method 2: the closest checkbox-sized shape intersecting the search area
ShapeMethod(page, label_rect, search_area) ==
    LET potential_checkboxes ==
            SelectSeq(page.drawings,
                LAMBDA s : /\ s.has_rect
                           /\ RectIntersects(s.rect, search_area)
                           /\ ~RectIsEmpty(s.rect)
                           /\ 5 < s.rect[3] - s.rect[1] /\ s.rect[3] - s.rect[1] < 30
                           /\ 5 < s.rect[4] - s.rect[2] /\ s.rect[4] - s.rect[2] < 30)
        closest == FirstIndex(potential_checkboxes,
                       LAMBDA k : \A m \in DOMAIN potential_checkboxes :
                           CentreDistance(potential_checkboxes[k].rect, label_rect)
                               <= CentreDistance(potential_checkboxes[m].rect, label_rect))
        text_in_box == Lower(Strip(potential_checkboxes[closest].text_in_box))
    IN  IF potential_checkboxes = <<>> THEN CheckboxResult(<<>>, <<>>)
        ELSE IF \E marker \in {<<"x">>, <<"U2713">>, <<"U2714">>} :
                    Contains(text_in_box, marker)
             THEN CheckboxResult(<<"C","h","e","c","k","e","d">>, potential_checkboxes[closest].rect)
             ELSE CheckboxResult(<<"U","n","c","h","e","c","k","e","d">>, potential_checkboxes[closest].rect)

\* Method 3: the first checkbox or radio widget intersecting the search area
WidgetMethod(page, label_rect, search_area) ==
    LET hit == FirstIndex(page.widgets,
                   LAMBDA k : /\ RectIntersects(page.widgets[k].rect, search_area)
                              /\ page.widgets[k].field_type \in {"checkbox", "radio"})
    IN  IF page.widgets_fault THEN [CheckboxResult(<<>>, <<>>) EXCEPT !.raised = TRUE]
        ELSE IF hit = 0 THEN CheckboxResult(<<>>, <<>>)
        ELSE IF page.widgets[hit].field_value # <<>> /\ page.widgets[hit].field_value # <<"O","f","f">>
             THEN CheckboxResult(<<"C","h","e","c","k","e","d">>, page.widgets[hit].rect)
             ELSE CheckboxResult(<<"U","n","c","h","e","c","k","e","d">>, page.widgets[hit].rect)

\* the methods in the order the widget method first
MethodsWidgetFirst(page, label_rect, search_area) ==
    << WidgetMethod(page, label_rect, search_area),
       ShapeMethod(page, label_rect, search_area),
       MarkerMethod(page, label_rect, search_area) >>

\* the methods in the order of the code
Methods(page, label_rect, search_area) ==
    << MarkerMethod(page, label_rect, search_area),
       ShapeMethod(page, label_rect, search_area),
       WidgetMethod(page, label_rect, search_area) >>

\* find_checkbox_near_label(page, label, search_radius, instance)
FindCheckboxNearLabel(page, label, search_radius, instance) ==
    Bind(LabelInstances(page, label, instance),
    LAMBDA label_instances :
        IF Len(label_instances) <= instance THEN CheckboxResult(<<"N","o","t"," ","F","o","u","n","d">>, <<>>)
        ELSE IF page.words_fault THEN [CheckboxResult(<<>>, <<>>) EXCEPT !.raised = TRUE]
        ELSE Bind(Methods(page, label_instances[instance + 1],
                          CheckboxSearchArea(label_instances[instance + 1], search_radius)),
             LAMBDA outcome :
                 LET first == FirstIndex(outcome,
                                  LAMBDA k : outcome[k].raised \/ outcome[k].value # <<>>)
                 IN  IF first = 0
                     THEN CheckboxResult(<<"U","n","c","h","e","c","k","e","d">>, label_instances[instance + 1])
                     ELSE outcome[first]))

(***************************************************************************)
(* app/db/crud.py as the processor uses it.  The database is               *)
(* [documents, data, calls, raised]: the Document rows [method, status],   *)
(* the ExtractedData rows, the number of calls made, and whether a call    *)
(* (or an extractor, in the operators below) has raised.  The call number  *)
(* fault_at raises and stores nothing; 0 is no fault.                      *)
(***************************************************************************)
\* one call of a crud function: Apply is its effect when it does not raise
Crud(db, fault_at, Apply(_)) ==
    IF db.raised THEN db
    ELSE IF db.calls + 1 = fault_at THEN [db EXCEPT !.calls = @ + 1, !.raised = TRUE]
    ELSE Apply([db EXCEPT !.calls = @ + 1])

create_document(db, fault_at, method, status) ==
    Crud(db, fault_at,
         LAMBDA t : [t EXCEPT !.documents = Append(@, [method |-> method, status |-> status])])

\* the document id is the row number
update_document_status(db, fault_at, doc_id, status) ==
    Crud(db, fault_at,
         LAMBDA t : IF doc_id \in DOMAIN t.documents
                    THEN [t EXCEPT !.documents[doc_id].status = status]
                    ELSE t)

add_extracted_data(db, fault_at, doc_id, key, value, page, coords, method) ==
    Crud(db, fault_at,
         LAMBDA t : [t EXCEPT !.data = Append(@,
                        [document_id |-> doc_id, key |-> key, value |-> value,
                         source_page |-> page, source_coordinates |-> coords,
                         extraction_method |-> method])])

\* clear_all_data: every row of both tables is deleted.  (It is called by
\* the application between runs of process_document, so it is not one of
\* the calls that the fault position of a job counts.)
clear_all_data(db) == [db EXCEPT !.documents = <<>>, !.data = <<>>]

(***************************************************************************)
(* app/core/config_manager.py and app/core/document_processor.py           *)
(***************************************************************************)
\* identify_form_type: the index of the first configuration whose
\* identification_string is in the text of the first page, 0 for None
IdentifyFormType(pages, configs) ==
    FirstIndex(configs,
        LAMBDA k : /\ configs[k].identification_string # <<>>
                   /\ Contains(pages[1].text, configs[k].identification_string))

\* variant of SaveFields: every returned field is saved, empty values included
RECURSIVE SaveFieldsAll(_, _, _, _, _, _)
SaveFieldsAll(db, fault_at, doc_id, extracted_fields, k, page_num) ==
    IF k > Len(extracted_fields) THEN db
    ELSE Bind(add_extracted_data(db, fault_at, doc_id, extracted_fields[k].name,
                  extracted_fields[k].value, page_num, extracted_fields[k].rect,
                  "Config Field"),
              LAMBDA next :
                  SaveFieldsAll(next, fault_at, doc_id, extracted_fields, k + 1, page_num))

\* the `for field in extracted_fields` loop of _process_with_config, from
\* field k on
RECURSIVE SaveFields(_, _, _, _, _, _)
SaveFields(db, fault_at, doc_id, extracted_fields, k, page_num) ==
    IF k > Len(extracted_fields) THEN db
    ELSE Bind(IF extracted_fields[k].value # <<>>
              THEN add_extracted_data(db, fault_at, doc_id, extracted_fields[k].name,
                       extracted_fields[k].value, page_num, extracted_fields[k].rect,
                       "Config Field")
              ELSE db,
              LAMBDA next :
                  SaveFields(next, fault_at, doc_id, extracted_fields, k + 1, page_num))

\* the `for checkbox in page_checkboxes` loop, from checkbox k on
RECURSIVE SaveCheckboxes(_, _, _, _, _, _, _)
SaveCheckboxes(db, fault_at, doc_id, page, page_checkboxes, k, page_num) ==
    IF k > Len(page_checkboxes) \/ db.raised THEN db
    ELSE Bind(FindCheckboxNearLabel(page, page_checkboxes[k].label, 50,
                                    page_checkboxes[k].instance),
         LAMBDA found :
         Bind(IF found.raised THEN [db EXCEPT !.raised = TRUE]
              ELSE IF found.value # <<"N","o","t"," ","F","o","u","n","d">>
              THEN add_extracted_data(db, fault_at, doc_id, page_checkboxes[k].name,
                       found.value, page_num,
                       IF found.rect # <<>> THEN found.rect ELSE <<0, 0, 0, 0>>,
                       "Config Checkbox")
              ELSE db,
         LAMBDA next :
             SaveCheckboxes(next, fault_at, doc_id, page, page_checkboxes, k + 1,
                            page_num)))

\* one iteration of `for page_num in range(len(doc))` of _process_with_config
ProcessConfigPage(db, fault_at, doc_id, page, page_num, config) ==
    LET page_fields == SelectSeq(config.fields, LAMBDA f : f.page_num = page_num)
        page_checkboxes == SelectSeq(config.checkboxes, LAMBDA c : c.page_num = page_num)
    IN  Bind(IF page_fields = <<>> THEN db
             ELSE IF page.words_fault THEN [db EXCEPT !.raised = TRUE]
             ELSE SaveFields(db, fault_at, doc_id,
                      FindAllFieldsOnPage(page.words, page_fields), 1, page_num),
             LAMBDA after_fields :
                 SaveCheckboxes(after_fields, fault_at, doc_id, page, page_checkboxes, 1,
                                page_num))

\* the `for element in extracted_elements` loop of _process_dynamically
RECURSIVE SaveElements(_, _, _, _, _)
SaveElements(db, fault_at, doc_id, extracted_elements, k) ==
    IF k > Len(extracted_elements) THEN db
    ELSE Bind(add_extracted_data(db, fault_at, doc_id, extracted_elements[k].key,
                  extracted_elements[k].value, extracted_elements[k].page_num,
                  extracted_elements[k].coords, extracted_elements[k].method),
              LAMBDA next : SaveElements(next, fault_at, doc_id, extracted_elements, k + 1))

(***************************************************************************)
(* find_checkbox_near_label applied to a page, a label and an instance     *)
(***************************************************************************)
\* the pages the resolver is applied to are every combination of the
\* engine's answers for the label search, the words, the drawings and the
\* widgets
CheckboxStart ==
    /\ b_page \in
        LET Word(x0, y0, x1, y1, text) == <<x0, y0, x1, y1, text>>
            Shape(rect, text) == [has_rect |-> TRUE, rect |-> rect, text_in_box |-> text]
            Box(field_type, field_value, rect) ==
                [field_name |-> <<"m">>, field_type |-> field_type,
                 field_value |-> field_value, rect |-> rect]
            hits == {
                <<>>,
                << [needle |-> <<"M","a","r","r","i","e","d">>, rects |-> << <<100, 50, 140, 60>> >>] >>,
                << [needle |-> <<"M","a","r","r","i","e","d">>,
                    rects |-> << <<100, 50, 140, 60>>, <<100, 80, 140, 90>> >>],
                   [needle |-> <<"M","a","r","r","i","e","d",":">>, rects |-> << <<100, 80, 145, 90>> >>] >> }
            words == {
                <<>>,
                << Word(85, 50, 93, 60, <<"X">>), Word(100, 50, 140, 60, <<"M","a","r","r","i","e","d">>) >>,
                << Word(100, 50, 140, 60, <<"M","a","r","r","i","e","d">>), Word(200, 50, 208, 60, <<"x">>) >>,
                << Word(60, 50, 95, 60, <<"S","t","a","t","u","s">>), Word(100, 80, 140, 90, <<"M","a","r","r","i","e","d">>) >> }
            drawings == {
                <<>>,
                << Shape(<<85, 50, 95, 60>>, <<>>) >>,
                << Shape(<<85, 50, 95, 60>>, <<" ","X"," ">>) >>,
                << Shape(<<60, 48, 72, 60>>, <<"x">>), Shape(<<85, 50, 95, 60>>, <<>>) >>,
                << Shape(<<60, 40, 100, 80>>, <<"x">>) >>,
                << Shape(<<85, 38, 95, 48>>, <<"x">>), Shape(<<85, 50, 95, 60>>, <<>>) >>,
                << [has_rect |-> FALSE, rect |-> <<>>, text_in_box |-> <<>>],
                   Shape(<<85, 80, 95, 90>>, <<>>) >> }
            widgets == {
                <<>>,
                << Box("checkbox", <<"Y","e","s">>, <<85, 50, 95, 60>>) >>,
                << Box("checkbox", <<"O","f","f">>, <<85, 50, 95, 60>>) >>,
                << Box("text", <<"Y","e","s">>, <<85, 50, 95, 60>>),
                   Box("radio", <<>>, <<80, 50, 90, 60>>) >> }
        IN  {[hits |-> h, words |-> w, drawings |-> d, widgets |-> g,
              widgets_fault |-> wf, words_fault |-> FALSE] :
                h \in hits, w \in words, d \in drawings, g \in widgets, wf \in BOOLEAN}
    /\ b_label = <<"M","a","r","r","i","e","d">>
    /\ b_instance \in 0..MaxInstance
    /\ b_pc = "start"
    /\ b_result = CheckboxResult(<<>>, <<>>)

\* find_checkbox_near_label is not in use
CheckboxIdle ==
    /\ b_page = <<>>
    /\ b_label = <<>>
    /\ b_instance = 0
    /\ b_pc = "idle"
    /\ b_result = CheckboxResult(<<>>, <<>>)

\* the call returns, or raises
ApplyFindCheckbox ==
    /\ b_pc = "start"
    /\ b_result' = FindCheckboxNearLabel(b_page, b_label, 50, b_instance)
    /\ b_pc' = "done"
    /\ UNCHANGED <<b_page, b_label, b_instance>>
    /\ UNCHANGED otherThanCheckbox

CheckboxNext == ApplyFindCheckbox


(***************************************************************************)
(* DocumentProcessor.process_document on a file, a mode and a database.     *)
(* p_doc is the document handle ("none", "open", "closed"); a step that    *)
(* raises ends the call with p_pc = "raised", a return with "returned".    *)
(***************************************************************************)
\* a job is a file (does it open, and the pages the engine returns for it),
\* a mode, ConfigManager.configs in the order identify_form_type walks
\* them, and the number of the database call that raises (0 for none)
ProcessorStart ==
    /\ p_job \in
        LET Page(text, words, hits) ==
                [text |-> text, words |-> words, hits |-> hits, drawings |-> <<>>,
                 widgets |-> <<>>, tables |-> <<>>, widgets_fault |-> FALSE,
                 find_tables_fault |-> FALSE, words_fault |-> FALSE]
            Married == << [needle |-> <<"M","a","r","r","i","e","d">>, rects |-> << <<100, 50, 140, 60>> >>] >>
            LoanWords ==
                << <<0, 0, 30, 10, <<"N","a","m","e",":">>>>, <<35, 0, 60, 10, <<"J","o","h","n">>>>,
                   <<0, 20, 30, 30, <<"T","i","t","l","e",":">>>>, <<100, 50, 140, 60, <<"M","a","r","r","i","e","d">>>> >>
            SurnameWords ==
                << <<0, 0, 50, 10, <<"S","u","r","n","a","m","e",":">>>>, <<55, 0, 85, 10, <<"S","m","i","t","h">>>> >>
            files == {
                \* a loan form: a filled field, a Title label with the label of a
                \* checkbox on the line below it, nothing drawn around that label
                << Page(<<"L","O","A","N">>, LoanWords, Married) >>,
                \* the same form with a marker glyph in front of the label
                << Page(<<"L","O","A","N">>, <<<<85, 50, 93, 60, <<"X">>>>>> \o LoanWords, Married) >>,
                \* a loan form of two pages, the checkbox label absent
                << Page(<<"L","O","A","N">>, <<>>, <<>>), Page(<<>>, SurnameWords, <<>>) >>,
                \* a loan form whose page fails to give its words
                << [Page(<<"L","O","A","N">>, <<>>, <<>>) EXCEPT !.words_fault = TRUE] >>,
                \* a loan form whose page fails to give its widgets
                << [Page(<<"L","O","A","N">>, <<>>, Married) EXCEPT !.widgets_fault = TRUE] >>,
                \* an unknown form with a colon label
                << Page(<<"M","E","M","O">>, SurnameWords, <<>>) >>,
                \* an unknown form with nothing on it
                << Page(<<>>, <<>>, <<>>) >>,
                \* a loan form with a filled field and an empty Title
                << Page(<<"L","O","A","N">>, SubSeq(LoanWords, 1, 3), <<>>) >>,
                \* a file that opens as a document of no page
                <<>>,
                \* a note of one page: its configuration has nothing on page 0
                << Page(<<"N","O","T","E">>, SurnameWords, <<>>) >>,
                \* a form of checkboxes only, a marker glyph in front of its label
                << Page(<<"C","B">>, << <<85, 50, 93, 60, <<"X">>>>,
                                  <<100, 50, 140, 60, <<"M","a","r","r","i","e","d">>>> >>, Married) >> }
            configs == <<
                [form_type |-> "loan", identification_string |-> <<"L","O","A","N">>,
                 fields |-> << [name |-> <<"N","a","m","e">>, label |-> <<"N","a","m","e",":">>, page_num |-> 0,
                                instance |-> 0],
                               [name |-> <<"T","i","t","l","e">>, label |-> <<"T","i","t","l","e",":">>, page_num |-> 0,
                                instance |-> 0],
                               [name |-> <<"S","u","r","n","a","m","e">>, label |-> <<"S","u","r","n","a","m","e",":">>, page_num |-> 1,
                                instance |-> 0] >>,
                 checkboxes |-> << [name |-> <<"M","a","r","r","i","e","d">>, label |-> <<"M","a","r","r","i","e","d">>,
                                    page_num |-> 0, instance |-> 0] >>],
                [form_type |-> "note", identification_string |-> <<"N","O","T","E">>,
                 fields |-> << [name |-> <<"S","u","r","n","a","m","e">>, label |-> <<"S","u","r","n","a","m","e",":">>, page_num |-> 1,
                                instance |-> 0] >>,
                 checkboxes |-> <<>>],
                [form_type |-> "cb", identification_string |-> <<"C","B">>,
                 fields |-> <<>>,
                 checkboxes |-> << [name |-> <<"M","a","r","r","i","e","d">>, label |-> <<"M","a","r","r","i","e","d">>,
                                    page_num |-> 0, instance |-> 0] >>] >>
        IN  [opens : BOOLEAN, pages : files, configs : {configs},
             mode : {"Precise (Config-Based)", "Dynamic Heuristic"},
             fault_at : 0..MaxDbFault]
    /\ p_pc = "start"
    /\ p_doc = "none"
    /\ p_db = [documents |-> <<>>, data |-> <<>>, calls |-> 0, raised |-> FALSE]
    /\ p_form = 0
    /\ p_page = 0
    /\ p_fallback = FALSE
    /\ p_extracted = FALSE

\* process_document is not in use
ProcessorIdle ==
    /\ p_job = <<>>
    /\ p_pc = "idle"
    /\ p_doc = "none"
    /\ p_db = [documents |-> <<>>, data |-> <<>>, calls |-> 0, raised |-> FALSE]
    /\ p_form = 0
    /\ p_page = 0
    /\ p_fallback = FALSE
    /\ p_extracted = FALSE

\* process_document without its except clause: the failed open is taken for
\* an opened document
OpenFailureIgnored ==
    /\ p_pc = "start"
    /\ ~p_job.opens
    /\ p_pc' = IF p_job.mode = "Precise (Config-Based)" THEN "config" ELSE "dynamic"
    /\ UNCHANGED <<p_job, p_doc, p_db, p_form, p_page, p_fallback, p_extracted>>
    /\ UNCHANGED otherThanProcessor

\* fitz.open raises: the ERROR_OPENING_FILE record, and return
OpenFails ==
    /\ p_pc = "start"
    /\ ~p_job.opens
    /\ p_db' = create_document(p_db, p_job.fault_at, p_job.mode, "ERROR_OPENING_FILE")
    /\ p_pc' = IF p_db'.raised THEN "raised" ELSE "returned"
    /\ UNCHANGED <<p_job, p_doc, p_form, p_page, p_fallback, p_extracted>>
    /\ UNCHANGED otherThanProcessor

\* fitz.open returns the handle; the mode picks the branch
Open ==
    /\ p_pc = "start"
    /\ p_job.opens
    /\ p_doc' = "open"
    /\ p_pc' = IF p_job.mode = "Precise (Config-Based)" THEN "config" ELSE "dynamic"
    /\ UNCHANGED <<p_job, p_db, p_form, p_page, p_fallback, p_extracted>>
    /\ UNCHANGED otherThanProcessor

\* identify_form_type on a document of no page: pdf_document[0] raises
IdentifyFails ==
    /\ p_pc = "config"
    /\ p_job.pages = <<>>
    /\ p_db' = [p_db EXCEPT !.raised = TRUE]
    /\ p_pc' = "raised"
    /\ UNCHANGED <<p_job, p_doc, p_form, p_page, p_fallback, p_extracted>>
    /\ UNCHANGED otherThanProcessor

\* _process_with_config: no form type is identified, fall back
Fallback ==
    /\ p_pc = "config"
    /\ p_job.pages # <<>>
    /\ IdentifyFormType(p_job.pages, p_job.configs) = 0
    /\ p_fallback' = TRUE
    /\ p_pc' = "dynamic"
    /\ UNCHANGED <<p_job, p_doc, p_db, p_form, p_page, p_extracted>>
    /\ UNCHANGED otherThanProcessor

\* _process_with_config: the form type is identified and the PROCESSING
\* record created.  (The CONFIG_ERROR branch needs a form type whose
\* configuration is empty; identify_form_type returns none such.)
ConfigBegin ==
    /\ p_pc = "config"
    /\ p_job.pages # <<>>
    /\ IdentifyFormType(p_job.pages, p_job.configs) # 0
    /\ p_form' = IdentifyFormType(p_job.pages, p_job.configs)
    /\ p_db' = create_document(p_db, p_job.fault_at,
                   "Config: " \o p_job.configs[p_form'].form_type, "PROCESSING")
    /\ p_page' = 0
    /\ p_pc' = IF p_db'.raised THEN "raised" ELSE "page"
    /\ UNCHANGED <<p_job, p_doc, p_fallback, p_extracted>>
    /\ UNCHANGED otherThanProcessor

\* one iteration of the page loop of _process_with_config; an extractor is
\* called when the page has configured fields or configured checkboxes
ConfigPage ==
    /\ p_pc = "page"
    /\ p_page < Len(p_job.pages)
    /\ p_db' = ProcessConfigPage(p_db, p_job.fault_at, Len(p_db.documents),
                   p_job.pages[p_page + 1], p_page, p_job.configs[p_form])
    /\ p_extracted' =
           (\/ p_extracted
            \/ (\E f \in Range(p_job.configs[p_form].fields) : f.page_num = p_page)
            \/ (\E c \in Range(p_job.configs[p_form].checkboxes) : c.page_num = p_page))
    /\ p_page' = p_page + 1
    /\ p_pc' = IF p_db'.raised THEN "raised" ELSE "page"
    /\ UNCHANGED <<p_job, p_doc, p_form, p_fallback>>
    /\ UNCHANGED otherThanProcessor

\* the page loop is over: status SUCCESS
ConfigFinish ==
    /\ p_pc = "page"
    /\ p_page >= Len(p_job.pages)
    /\ p_db' = update_document_status(p_db, p_job.fault_at, Len(p_db.documents), "SUCCESS")
    /\ p_pc' = IF p_db'.raised THEN "raised" ELSE "close"
    /\ UNCHANGED <<p_job, p_doc, p_form, p_page, p_fallback, p_extracted>>
    /\ UNCHANGED otherThanProcessor

\* _process_dynamically: the PROCESSING record
DynamicBegin ==
    /\ p_pc = "dynamic"
    /\ p_db' = create_document(p_db, p_job.fault_at,
                   IF p_fallback THEN "Dynamic (Fallback)" ELSE "Dynamic Heuristic",
                   "PROCESSING")
    /\ p_pc' = IF p_db'.raised THEN "raised" ELSE "extract"
    /\ UNCHANGED <<p_job, p_doc, p_form, p_page, p_fallback, p_extracted>>
    /\ UNCHANGED otherThanProcessor

\* _process_dynamically: extract_all, then the records and the final status
DynamicExtract ==
    /\ p_pc = "extract"
    /\ \E extracted \in {ExtractAll(p_job.pages)} :
           p_db' = IF extracted.raised THEN [p_db EXCEPT !.raised = TRUE]
                   ELSE IF extracted.results = <<>>
                   THEN update_document_status(p_db, p_job.fault_at, Len(p_db.documents),
                                               "SUCCESS_NO_DATA")
                   ELSE update_document_status(
                            SaveElements(p_db, p_job.fault_at, Len(p_db.documents),
                                         extracted.results, 1),
                            p_job.fault_at, Len(p_db.documents), "SUCCESS")
    /\ p_extracted' = TRUE
    /\ p_pc' = IF p_db'.raised THEN "raised" ELSE "close"
    /\ UNCHANGED <<p_job, p_doc, p_form, p_page, p_fallback>>
    /\ UNCHANGED otherThanProcessor

\* if doc: doc.close() -- a document is true when it has a page (its truth
\* value is its length), so a document of no page is left open
Close ==
    /\ p_pc = "close"
    /\ p_doc' = IF p_job.pages # <<>> THEN "closed" ELSE p_doc
    /\ p_pc' = "returned"
    /\ UNCHANGED <<p_job, p_db, p_form, p_page, p_fallback, p_extracted>>
    /\ UNCHANGED otherThanProcessor

\* the application's "Clear Database": crud.clear_all_data, once
\* process_document is over
ClearAllData ==
    /\ p_pc \in {"returned", "raised"}
    /\ p_db' = clear_all_data(p_db)
    /\ p_pc' = "cleared"
    /\ UNCHANGED <<p_job, p_doc, p_form, p_page, p_fallback, p_extracted>>
    /\ UNCHANGED otherThanProcessor

ProcessorNext ==
    \/ OpenFails
    \/ Open
    \/ IdentifyFails
    \/ Fallback
    \/ ConfigBegin
    \/ ConfigPage
    \/ ConfigFinish
    \/ DynamicBegin
    \/ DynamicExtract
    \/ Close
    \/ ClearAllData
(***************************************************************************)
(* Specifications: one per component, the other components idle.           *)
(***************************************************************************)
\* DynamicExtractor.extract_all on a document
Init == DynStart /\ CleanIdle /\ TemplateIdle /\ CheckboxIdle /\ ProcessorIdle
Next == DynNext
Spec == Init /\ [][Next]_vars

\* the text normalizers on a string
CleanInit == CleanStart /\ TemplateIdle /\ DynIdle /\ CheckboxIdle /\ ProcessorIdle
SpecClean == CleanInit /\ [][CleanNext]_vars

\* Extractor.find_all_fields_on_page on a page and a field configuration
TemplateInit == TemplateStart /\ CleanIdle /\ DynIdle /\ CheckboxIdle /\ ProcessorIdle
SpecTemplate == TemplateInit /\ [][TemplateNext]_vars

\* Extractor.find_checkbox_near_label on a page, a label and an instance
CheckboxInit == CheckboxStart /\ CleanIdle /\ TemplateIdle /\ DynIdle /\ ProcessorIdle
SpecCheckbox == CheckboxInit /\ [][CheckboxNext]_vars

\* DocumentProcessor.process_document on a file, a mode and a database
ProcessorInit == ProcessorStart /\ CleanIdle /\ TemplateIdle /\ DynIdle /\ CheckboxIdle
SpecProcessor == ProcessorInit /\ [][ProcessorNext]_vars
(***************************************************************************)
(* Properties of DynamicExtractor.extract_all (specification Spec)         *)
(***************************************************************************)
\* the records the widget pass yields for page p of the document
WidgetRecordsOf(p) == ExtractFromWidgets(d_doc[p], p - 1)

\* the records one pass over page p alone appends, no key processed before
PageAloneRecords(p) == ExtractPage(d_doc[p], p - 1, {}).results

\* record r is in the list extract_all has built
InOutput(r) == \E i \in DOMAIN d_all_results : d_all_results[i] = r

\* C1: the list extract_all builds and returns never holds two records
\* with equal (key, page_num), whatever the strategies of a page yield.
C1_Dedup ==
    \A i, j \in DOMAIN d_all_results :
        i # j => ~(/\ d_all_results[i].key = d_all_results[j].key
                   /\ d_all_results[i].page_num = d_all_results[j].page_num)

\* C1 witness: extract_all has returned for a document with a page where the
\* widget pass and the spatial pass, or the widget pass twice, yield one key.
C1_Witness ==
    /\ d_pc = "done"
    /\ d_all_results # <<>>
    /\ \E p \in DOMAIN d_doc :
           \E w \in {WidgetRecordsOf(p)} :
               \/ \E s \in {ExtractSpatialData(d_doc[p].words, p - 1, {}).results} :
                      \E a \in DOMAIN w, b \in DOMAIN s : w[a].key = s[b].key
               \/ \E a, b \in DOMAIN w : a # b /\ w[a].key = w[b].key

\* C2: when extract_all returns, the first record the widget pass yields for
\* a key on a page is in the output, and it is the only record of the output
\* with that key and page.
C2_WidgetPriority ==
    d_pc = "done" =>
        \A p \in DOMAIN d_doc :
            \E w \in {WidgetRecordsOf(p)} :
                \A a \in DOMAIN w :
                    (\A b \in 1..(a - 1) : w[b].key # w[a].key) =>
                        /\ InOutput(w[a])
                        /\ \A i \in DOMAIN d_all_results :
                               (/\ d_all_results[i].key = w[a].key
                                /\ d_all_results[i].page_num = p - 1)
                                   => d_all_results[i] = w[a]

\* C3: processed_keys is per-page state: when extract_all returns, every
\* (key, page_num) that a pass over the page alone yields is in the output,
\* whatever keys the earlier pages emitted.
C3_KeysPerPage ==
    d_pc = "done" =>
        \A p \in DOMAIN d_doc :
            \E alone \in {PageAloneRecords(p)} :
                \A a \in DOMAIN alone :
                    \E i \in DOMAIN d_all_results :
                        /\ d_all_results[i].key = alone[a].key
                        /\ d_all_results[i].page_num = alone[a].page_num

(***************************************************************************)
(* Properties of the text normalizers (SpecClean).                         *)
(***************************************************************************)
\* C4: clean_value is idempotent: clean_value(clean_value(s)) = clean_value(s)
\* for every string s over the alphabet.
C4_CleanValueIdempotent ==
    c_fn = "clean_value" => c_out2 = c_out1

\* C5: clean_text (cleanKey) is idempotent: clean_text(clean_text(s)) =
\* clean_text(s) for every string s over the alphabet.
C5_CleanTextIdempotent ==
    c_fn = "clean_text" => c_out2 = c_out1

(***************************************************************************)
(* Properties of the template parser (SpecTemplate).                       *)
(***************************************************************************)
\* the (name, value) pairs of the returned records, in order
NameValues(results) == [k \in DOMAIN results |-> <<results[k].name, results[k].value>>]

\* the sorted words of the line a match was made on
MatchLine(m) == LineWords(t_words, SortedLineKeys(t_words)[m.line])

TelConfig ==
    << [name |-> <<"T","e","l">>, label |-> <<"T","e","l">>, instance |-> 0],
       [name |-> <<"T","e","l"," ","N","o">>, label |-> <<"T","e","l"," ","N","o",".">>, instance |-> 0] >>

\* the line "Tel No.: 555-1234" as page.get_text("words") gives it
TelColonWords ==
    << <<0, 0, 15, 10, <<"T","e","l">>>>, <<18, 0, 40, 10, <<"N","o",".",":">>>>, <<45, 0, 90, 10, <<"5","5","5","-","1","2","3","4">>>> >>

\* the line "Tel No. 555-1234"
TelWords ==
    << <<0, 0, 15, 10, <<"T","e","l">>>>, <<18, 0, 40, 10, <<"N","o",".">>>>, <<45, 0, 90, 10, <<"5","5","5","-","1","2","3","4">>>> >>

\* every match made so far chose a label that no declared label matching at
\* the same position exceeds in length
LongestMatchChosen ==
    \A n \in DOMAIN t_matches :
        \A k \in DOMAIN t_fields :
            LabelMatchesAt(MatchLine(t_matches[n]), t_matches[n].pos, t_fields[k].label)
                => Len(t_fields[k].label) <= Len(t_matches[n].found_label)

\* C6 as stated: with "Tel" and "Tel No." declared and the line text
\* "Tel No.: 555-1234" the parser matches "Tel No." and does not match "Tel"
\* with the stray value "No.: 555-1234"; at each position the longest
\* matching label is chosen.
C6_LongestMatchAsStated ==
    /\ LongestMatchChosen
    /\ (t_pc = "done" /\ t_fields = TelConfig /\ t_words = TelColonWords)
          => /\ \E k \in DOMAIN t_results : t_results[k].name = <<"T","e","l"," ","N","o">>
             /\ ~\E k \in DOMAIN t_results :
                    /\ t_results[k].name = <<"T","e","l">>
                    /\ t_results[k].value = <<"N","o",".",":"," ","5","5","5","-","1","2","3","4">>

\* C6 amended: at each scan position the longest declared label whose words
\* equal the page words there is chosen; for the words "Tel", "No.",
\* "555-1234" that is "Tel No." with value "555-1234"; for the words "Tel",
\* "No.:", "555-1234" the word "No.:" differs from "No.", so only "Tel"
\* matches and its value is "No.: 555-1234".
C6_LongestMatch ==
    /\ LongestMatchChosen
    /\ (t_pc = "done" /\ t_fields = TelConfig /\ t_words = TelWords)
          => NameValues(t_results) = << <<<<"T","e","l"," ","N","o">>, <<"5","5","5","-","1","2","3","4">>>> >>
    /\ (t_pc = "done" /\ t_fields = TelConfig /\ t_words = TelColonWords)
          => NameValues(t_results) = << <<<<"T","e","l">>, <<"N","o",".",":"," ","5","5","5","-","1","2","3","4">>>> >>

C6_Witness ==
    /\ t_pc = "done"
    /\ t_fields = TelConfig
    /\ t_words = TelWords
    /\ Len(t_matches) = 1
    /\ t_matches[1].found_label = <<"T","e","l"," ","N","o",".">>

NameDobConfig ==
    << [name |-> <<"N","a","m","e">>, label |-> <<"N","a","m","e",":">>, instance |-> 0],
       [name |-> <<"D","O","B">>, label |-> <<"D","O","B",":">>, instance |-> 0],
       [name |-> <<"T","i","t","l","e">>, label |-> <<"T","i","t","l","e",":">>, instance |-> 0],
       [name |-> <<"F","a","x">>, label |-> <<"F","a","x",":">>, instance |-> 0] >>

\* the line "Name: John  DOB: 1990"
NameDobWords ==
    << <<0, 0, 30, 10, <<"N","a","m","e",":">>>>, <<35, 0, 60, 10, <<"J","o","h","n">>>>,
       <<80, 0, 105, 10, <<"D","O","B",":">>>>, <<110, 0, 135, 10, <<"1","9","9","0">>>> >>

\* another declared label than the one of match m matches at word k of its line
OtherLabelAt(m, k) ==
    \E j \in DOMAIN t_fields :
        /\ t_fields[j].label # m.found_label
        /\ LabelMatchesAt(MatchLine(m), k, t_fields[j].label)

\* C7: when a matched label is followed on its line by value tokens and then
\* by the token sequence of another declared label, the value is exactly the
\* tokens before that label; "Name: John  DOB: 1990" gives Name = "John" and
\* then DOB = "1990".
C7_BoundaryStop ==
    /\ \A n \in DOMAIN t_matches :
          LET m == t_matches[n]
              start == m.pos + Len(Split(m.found_label))
              stops == {k \in start..Len(MatchLine(m)) : OtherLabelAt(m, k)}
          IN  \A k \in stops :
                  (k > start /\ \A j \in stops : k <= j)
                      => m.value_words = SubSeq(MatchLine(m), start, k - 1)
    /\ (t_pc = "done" /\ t_fields = NameDobConfig /\ t_words = NameDobWords)
          => NameValues(t_results) = << <<<<"N","a","m","e">>, <<"J","o","h","n">>>>, <<<<"D","O","B">>, <<"1","9","9","0">>>> >>

C7_Witness ==
    /\ t_pc = "done"
    /\ t_fields = NameDobConfig
    /\ t_words = NameDobWords
    /\ Len(t_matches) = 2
    /\ t_matches[1].value_text = <<"J","o","h","n">>
    /\ t_matches[2].found_label = <<"D","O","B",":">>

SurnameDobConfig ==
    << [name |-> <<"S","u","r","n","a","m","e">>, label |-> <<"S","u","r","n","a","m","e",":">>, instance |-> 0],
       [name |-> <<"D","O","B">>, label |-> <<"D","O","B",":">>, instance |-> 0] >>

\* the tokens of the scenario, as words <<x0, y0, x1, y1, text>>
ScenarioWords ==
    << <<0, 0, 40, 10, <<"S","u","r","n","a","m","e",":">>>>, <<45, 0, 80, 10, <<"S","m","i","t","h">>>>,
       <<0, 20, 30, 30, <<"D","O","B",":">>>>, <<35, 20, 100, 30, <<"0","1","/","0","2","/","1","9","9","0">>>> >>

ScenarioOutput ==
    (t_pc = "done" /\ t_fields = SurnameDobConfig /\ t_words = ScenarioWords)
        => NameValues(t_results) =
              << <<<<"S","u","r","n","a","m","e">>, <<"S","m","i","t","h">>>>, <<<<"D","O","B">>, <<"0","1","/","0","2","/","1","9","9","0">>>> >>

\* the matches that stored a value for the field name
StoredMatches(name) ==
    {n \in DOMAIN t_matches : t_matches[n].field_name = name /\ t_matches[n].stored}

\* the match whose value the record of the field holds: the last one stored
ProducingMatch(name) ==
    CHOOSE n \in StoredMatches(name) : \A j \in StoredMatches(name) : j <= n

\* the matches are made in reading order: by line, then by position
MatchesInReadingOrder ==
    \A a, b \in DOMAIN t_matches :
        a < b => \/ t_matches[a].line < t_matches[b].line
                 \/ /\ t_matches[a].line = t_matches[b].line
                    /\ t_matches[a].pos < t_matches[b].pos

\* C8: the scenario returns [Surname = "Smith", DOB = "01/02/1990"] in that
\* order, and the returned records are in the reading order of the matched
\* labels their values come from.
C8_ReadingOrderAsStated ==
    /\ ScenarioOutput
    /\ MatchesInReadingOrder
    /\ \A j, k \in DOMAIN t_results :
          j < k => ProducingMatch(t_results[j].name) < ProducingMatch(t_results[k].name)

\* the records returned for a field name
RecordsOf(name) == {k \in DOMAIN t_results : t_results[k].name = name}

\* C9: a matched label with no value tokens on its line or the next line
\* leaves exactly one record with value "" when its field is allow-empty
\* (Title, Cell, e-mail), and adds no record otherwise.
C9_EmptyValueField ==
    t_matches # <<>> =>
        LET m == t_matches[Len(t_matches)]
            earlier == {n \in 1..(Len(t_matches) - 1) :
                          t_matches[n].field_name = m.field_name /\ t_matches[n].stored}
        IN  m.value_words = <<>> =>
                IF m.field_name \in {<<"T","i","t","l","e">>, <<"C","e","l","l">>, <<"e","-","m","a","i","l">>}
                THEN /\ Cardinality(RecordsOf(m.field_name)) = 1
                     /\ \A k \in RecordsOf(m.field_name) : t_results[k].value = <<>>
                ELSE earlier = {} => RecordsOf(m.field_name) = {}

C9_Witness ==
    /\ t_pc = "done"
    /\ Len(t_matches) = 2
    /\ t_matches[1].field_name = <<"T","i","t","l","e">>
    /\ t_matches[1].value_words = <<>>
    /\ t_matches[2].field_name = <<"F","a","x">>
    /\ t_matches[2].value_words = <<>>
    /\ NameValues(t_results) = << <<<<"T","i","t","l","e">>, <<>> >> >>
\* C10: a fault raised by a strategy while a page is processed does not
\* propagate out of extract_all.
C10_FaultIsolation == d_pc # "raised"

\* get_cell_bbox raised while the table was read: its records stop early
TableFaulted(table, tno, page_num) ==
    /\ ~table.extract_fault
    /\ Len(table.data) >= 2
    /\ TableRecordsFrom(table, tno, 2, 1, page_num)
           # TableRecordsFrom([table EXCEPT !.bbox_faults = {}], tno, 2, 1, page_num)

\* C11: when extract_all returns, no record that a table produced before a
\* fault raised while reading that table is in the output.
C11_PartialDiscarded ==
    d_pc = "done" =>
        \A p \in DOMAIN d_doc :
            \A k \in DOMAIN d_doc[p].tables :
                (~d_doc[p].find_tables_fault /\ TableFaulted(d_doc[p].tables[k], k, p - 1)) =>
                    \A r \in Range(TableRecordsFrom(d_doc[p].tables[k], k, 2, 1, p - 1)) :
                        ~InOutput(r)


\* process_document is over: it has returned, or an exception has left it
ProcessorOver == p_pc \in {"returned", "raised"}

\* C12: when process_document is over, on every path (a fault of an
\* extractor or of the database included), a document handle that was
\* opened has been closed.
C12_HandleReleased == ProcessorOver => p_doc # "open"

\* C13: when the engine fails to open the file, no extractor is ever called
\* and no extracted-data record is stored, and once process_document has
\* returned the database holds exactly one Document record, of status
\* ERROR_OPENING_FILE and of the mode asked for.
C13_OpenFailure ==
    (p_pc # "idle" /\ ~p_job.opens) =>
        /\ ~p_extracted
        /\ p_db.data = <<>>
        /\ p_pc = "returned" =>
               p_db.documents = <<[method |-> p_job.mode, status |-> "ERROR_OPENING_FILE"]>>

C13_Witness ==
    /\ p_pc = "returned"
    /\ ~p_job.opens
    /\ Len(p_db.documents) = 1
    /\ p_db.documents[1].status = "ERROR_OPENING_FILE"

\* the positions of s holding a letter that is a word of its own: the whole
\* string, or a letter with whitespace or a string end on both sides
StandaloneLetters(s) ==
    {i \in DOMAIN s : /\ IsLetter(s[i])
                      /\ (i = 1 \/ IsSpace(s[i - 1]))
                      /\ (i = Len(s) \/ IsSpace(s[i + 1]))}

\* C14: clean_value keeps every single-letter word of its input: a value
\* that is one letter, or that holds a standalone letter, has that letter in
\* the output.
C14_SingleLetterKept ==
    c_fn = "clean_value" =>
        \A i \in StandaloneLetters(c_in) : c_in[i] \in Range(c_out1)

\* the position of a record's strategy in the order extract_all and
\* _extract_spatial_data call the strategies (the checkbox groups are the
\* first step of the spatial pass, between the tables and the compound
\* labels)
StrategyRank(method) ==
    CASE method = "Widget" -> 1
      [] method = "Table" -> 2
      [] method = "Checkbox Option" -> 3
      [] method = "Compound Label" -> 4
      [] method = "Form Field" -> 5
      [] method = "Label Match" -> 6

\* the records in output order: all_results, then the spatial results of the
\* page in progress
OutputSoFar == d_all_results \o d_results

\* C15: in the output of extract_all no record of a page precedes a record
\* of an earlier page, and within a page no record of a later strategy
\* (Widgets, Tables, Compound Labels, Colon Labels, Standalone Labels)
\* precedes a record of an earlier one.
C15_StrategyOrder ==
    \A i, j \in DOMAIN OutputSoFar :
        i < j =>
            /\ OutputSoFar[i].page_num <= OutputSoFar[j].page_num
            /\ OutputSoFar[i].page_num = OutputSoFar[j].page_num =>
                   StrategyRank(OutputSoFar[i].method) <= StrategyRank(OutputSoFar[j].method)

C15_Witness ==
    /\ d_pc = "done"
    /\ \E i, j, k \in DOMAIN d_all_results :
           /\ i < j /\ j < k
           /\ d_all_results[i].page_num = d_all_results[j].page_num
           /\ d_all_results[i].method = "Table"
           /\ d_all_results[j].method = "Label Match"
           /\ d_all_results[k].page_num > d_all_results[j].page_num
           /\ d_all_results[k].method = "Widget"

\* the label occurrence find_checkbox_near_label works from, and its search
\* area
TheLabelFound == Len(LabelInstances(b_page, b_label, b_instance)) > b_instance
TheLabelRect == LabelInstances(b_page, b_label, b_instance)[b_instance + 1]
TheSearchArea == CheckboxSearchArea(TheLabelRect, 50)

\* what each method finds around that label, taken alone
ByMarker == MarkerMethod(b_page, TheLabelRect, TheSearchArea)
ByShape == ShapeMethod(b_page, TheLabelRect, TheSearchArea)
ByWidget == WidgetMethod(b_page, TheLabelRect, TheSearchArea)

\* C16: find_checkbox_near_label returns the outcome of the first of the
\* marker-glyph, vector-shape and widget methods that decides: a marker in
\* the search area gives Checked whatever the shapes and widgets are (the
\* widgets are not read, so their fault is not raised); otherwise a
\* candidate shape gives its Checked or Unchecked, the widgets again unread;
\* otherwise an intersecting checkbox or radio widget gives Unchecked for
\* the value "Off" or "" and Checked for any other value.
C16_MethodOrder ==
    (b_pc = "done" /\ TheLabelFound) =>
        IF ByMarker.value # <<>>
        THEN b_result = CheckboxResult(<<"C","h","e","c","k","e","d">>, ByMarker.rect)
        ELSE IF ByShape.value # <<>>
        THEN /\ b_result = ByShape
             /\ b_result.value \in {<<"C","h","e","c","k","e","d">>, <<"U","n","c","h","e","c","k","e","d">>}
        ELSE (~b_page.widgets_fault /\ ByWidget.value # <<>>) =>
                 /\ b_result = ByWidget
                 /\ \E k \in DOMAIN b_page.widgets :
                        /\ b_page.widgets[k].rect = b_result.rect
                        /\ b_page.widgets[k].field_type \in {"checkbox", "radio"}
                        /\ b_result.value = <<"U","n","c","h","e","c","k","e","d">>
                               <=> b_page.widgets[k].field_value \in {<<"O","f","f">>, <<>>}

\* a marker decides although the closest shape is an empty box and the
\* widgets would raise if they were read
C16_Witness ==
    /\ b_pc = "done"
    /\ TheLabelFound
    /\ ByMarker.value = <<"C","h","e","c","k","e","d">>
    /\ ByShape.value = <<"U","n","c","h","e","c","k","e","d">>
    /\ b_page.widgets_fault
    /\ b_result = CheckboxResult(<<"C","h","e","c","k","e","d">>, ByMarker.rect)

\* C17: when the label is found and no marker glyph, no candidate shape and
\* no checkbox or radio widget lies in its search area, the resolver returns
\* "Not Found".
C17_NothingNearIsNotFound ==
    (/\ b_pc = "done"
     /\ TheLabelFound
     /\ ~b_page.widgets_fault
     /\ ByMarker.value = <<>>
     /\ ByShape.value = <<>>
     /\ ByWidget.value = <<>>) => b_result.value = <<"N","o","t"," ","F","o","u","n","d">>

\* record r is a Checkbox Option record of value Checked
IsCheckedOption(r) == r.method = "Checkbox Option" /\ r.value = <<"C","h","e","c","k","e","d">>

\* C18: a marker token is assigned to at most one option: no two Checkbox
\* Option records of one page with value Checked carry the rectangle of the
\* same marker token.
C18_MarkerExclusive ==
    \A i, j \in DOMAIN OutputSoFar :
        (/\ i # j
         /\ IsCheckedOption(OutputSoFar[i])
         /\ IsCheckedOption(OutputSoFar[j])
         /\ OutputSoFar[i].page_num = OutputSoFar[j].page_num)
            => OutputSoFar[i].coords # OutputSoFar[j].coords

\* a page where one marker lies in the search areas of two option words:
\* the first option is Checked with the marker's rectangle, the second is
\* Not checked
C18_Witness ==
    /\ d_pc = "done"
    /\ \E p \in DOMAIN d_doc :
       \E a, b, m \in DOMAIN d_doc[p].words :
           /\ a # b
           /\ IsCheckboxMarker(Strip(d_doc[p].words[m][5]))
           /\ RectIntersects(WordRect(d_doc[p].words[m]),
                             OptionSearchArea(WordRect(d_doc[p].words[a])))
           /\ RectIntersects(WordRect(d_doc[p].words[m]),
                             OptionSearchArea(WordRect(d_doc[p].words[b])))
           /\ InOutput(Record(d_doc[p].words[a][5] \o <<" ","(","c","h","e","c","k","b","o","x",")">>, <<"C","h","e","c","k","e","d">>, p - 1,
                              WordRect(d_doc[p].words[m]), "Checkbox Option"))
           /\ InOutput(Record(d_doc[p].words[b][5] \o <<" ","(","c","h","e","c","k","b","o","x",")">>, <<"N","o","t"," ","c","h","e","c","k","e","d">>, p - 1,
                              WordRect(d_doc[p].words[b]), "Checkbox Option"))

\* the cell of data row r (from 2), column c (from 1) of a table yields a
\* record: it is non-empty and its cleaned value is non-empty and not a
\* form-fill line
CellYields(table, r, c) ==
    /\ table.data[r][c] # <<>>
    /\ clean_value(table.data[r][c]) # <<>>
    /\ ~IsFormFillLine(clean_value(table.data[r][c]))

\* the header cell of column c, "" when the header row is shorter
HeaderOf(table, c) ==
    IF c <= Len(table.data[1]) THEN table.data[1][c] ELSE <<>>

\* C19: once the table pass has run on a page whose tables raise nothing,
\* every yielding cell of every data row in a column with a header has its
\* record, keyed "Table i - <header of that column>" and placed at that
\* cell, and no record is placed at a cell whose column has an empty header.
C19_TableKeying ==
    (d_pc = "checkboxes" /\ ~ThisPage.find_tables_fault) =>
        \A k \in DOMAIN ThisPage.tables :
            LET table == ThisPage.tables[k]
                records == Range(ExtractFromTables(ThisPage, d_page_no - 1))
            IN  (~table.extract_fault /\ table.bbox_faults = {} /\ Len(table.data) >= 2) =>
                    \A r \in 2..Len(table.data) : \A c \in DOMAIN table.data[r] :
                        IF HeaderOf(table, c) # <<>>
                        THEN CellYields(table, r, c) =>
                                 Record(<<"T","a","b","l","e"," ">> \o IntToStr(k) \o <<" ","-"," ">>
                                            \o clean_text(HeaderOf(table, c)),
                                        clean_value(table.data[r][c]), d_page_no - 1,
                                        CellBBox(table, r - 1, c - 1), "Table") \in records
                        ELSE \A rec \in records :
                                 rec.coords # CellBBox(table, r - 1, c - 1)

\* the matches of a label made so far, in reading order
MatchesOf(label) == SelectSeq(t_matches, LAMBDA m : m.found_label = label)

\* C20: for a declared field with instance = n whose label is matched more
\* than n times on the page, the value returned for the field is the value
\* of occurrence n of the label (counted from 0 in reading order) whenever
\* that occurrence gave a storable value.
C20_InstanceSelects ==
    t_pc = "done" =>
        \A f \in Range(t_fields) :
            (/\ Len(MatchesOf(f.label)) > f.instance
             /\ MatchesOf(f.label)[f.instance + 1].stored)
                => \E k \in DOMAIN t_results :
                       /\ t_results[k].name = f.name
                       /\ t_results[k].value = MatchesOf(f.label)[f.instance + 1].value_text
(***************************************************************************)
(* Properties of the checkbox resolver, the spatial pass, the template     *)
(* parser and the processor, continued.                                    *)
(***************************************************************************)
\* the rectangles of the checkbox-sized shapes intersecting the search area
CandidateShapes ==
    {s.rect : s \in {d \in Range(b_page.drawings) :
                        /\ d.has_rect
                        /\ RectIntersects(d.rect, TheSearchArea)
                        /\ ~RectIsEmpty(d.rect)
                        /\ 5 < d.rect[3] - d.rect[1] /\ d.rect[3] - d.rect[1] < 30
                        /\ 5 < d.rect[4] - d.rect[2] /\ d.rect[4] - d.rect[2] < 30}}

\* the squared Euclidean distance, times four, between the centre of r and
\* the centre of the label
FromLabelCentre(r) ==
    LET dx == (TheLabelRect[1] + TheLabelRect[3]) - (r[1] + r[3])
        dy == (TheLabelRect[2] + TheLabelRect[4]) - (r[2] + r[4])
    IN  dx * dx + dy * dy

\* C21: when the vector-shape method decides, the rectangle returned is the
\* candidate shape whose centre is nearest to the label's centre in
\* Euclidean distance (both coordinates counting), also when two candidates
\* are equally far in x and differ in y.
C21_NearestShape ==
    (b_pc = "done" /\ TheLabelFound /\ ByMarker.value = <<>> /\ CandidateShapes # {}) =>
        /\ b_result.rect \in CandidateShapes
        /\ \A r \in CandidateShapes :
               FromLabelCentre(b_result.rect) <= FromLabelCentre(r)

\* two candidates equally far in x, the nearer one second in the drawings
C21_Witness ==
    /\ b_pc = "done"
    /\ TheLabelFound
    /\ ByMarker.value = <<>>
    /\ \E r \in CandidateShapes :
           /\ r # b_result.rect
           /\ r[1] + r[3] = b_result.rect[1] + b_result.rect[3]
           /\ FromLabelCentre(b_result.rect) < FromLabelCentre(r)
           /\ b_page.drawings[1].rect = r

\* record r comes from a spatial strategy that searches a value for a label
IsSpatialValue(r) == r.method \in {"Compound Label", "Form Field", "Label Match"}

\* the text of a word starts a known label: it ends with a colon, is a
\* standalone label, or is the first word of a compound label
StartsKnownLabel(text) ==
    /\ text # <<>>
    /\ \/ text[Len(text)] = ":"
       \/ text \in Range(single_labels)
       \/ \E k \in DOMAIN compound_patterns : compound_patterns[k][1] = text

\* C22: the absorption of value tokens stops at the first token that starts
\* another known label, so no value of a spatial record holds a token that
\* starts a known label (nor any token beyond it).
C22_StopsAtLabel ==
    \A k \in DOMAIN OutputSoFar :
        IsSpatialValue(OutputSoFar[k]) =>
            \A t \in Range(Split(OutputSoFar[k].value)) : ~StartsKnownLabel(t)

\* C23: every value emitted by the spatial strategies is normalized:
\* clean_value applied to it gives it back.
C23_SpatialValuesClean ==
    \A k \in DOMAIN OutputSoFar :
        IsSpatialValue(OutputSoFar[k]) =>
            clean_value(OutputSoFar[k].value) = OutputSoFar[k].value

\* The tokens of a page a record was made from, recovered from the record
\* (the words of a page of the pool have distinct texts and rectangles).
\* The tokens of its value: the words of a spatial value, the marker of a
\* Checked option.
ValueTokens(r, all_words) ==
    IF IsSpatialValue(r)
    THEN {i \in DOMAIN all_words : Strip(all_words[i][5]) \in Range(Split(r.value))}
    ELSE IF IsCheckedOption(r)
    THEN {i \in DOMAIN all_words : WordRect(all_words[i]) = r.coords}
    ELSE {}

\* The tokens of its label: the words inside the label rectangle (coords is
\* the label rectangle widened by 100), the option word of a checkbox option.
LabelTokens(r, all_words) ==
    IF IsSpatialValue(r)
    THEN {i \in DOMAIN all_words :
             /\ r.coords[1] <= all_words[i][1] /\ all_words[i][3] <= r.coords[3] - 100
             /\ r.coords[2] <= all_words[i][2] /\ all_words[i][4] <= r.coords[4]}
    ELSE IF r.method = "Checkbox Option"
    THEN {i \in DOMAIN all_words : Strip(all_words[i][5]) \o <<" ","(","c","h","e","c","k","b","o","x",")">> = r.key}
    ELSE {}

\* the positions in `output` of the records of the spatial pass of page p
SpatialRecordsIn(output, p) ==
    {k \in DOMAIN output :
        /\ output[k].page_num = p - 1
        /\ output[k].method \notin {"Widget", "Table"}}

\* no token of page p, of words all_words, is used by two records of
\* `output`, or as label and as value
TokensExclusive(output, all_words, p) ==
    \A k, m \in SpatialRecordsIn(output, p) :
        /\ ValueTokens(output[k], all_words) \cap LabelTokens(output[m], all_words) = {}
        /\ k # m =>
               /\ ValueTokens(output[k], all_words)
                      \cap ValueTokens(output[m], all_words) = {}
               /\ LabelTokens(output[k], all_words)
                      \cap LabelTokens(output[m], all_words) = {}

\* C24: within the spatial pass of a page processed_indices only grows, and
\* after every step no token of a page is used by two different records of
\* the page, and none is part of a matched label and of a value at once.
C24_ConsumedTokens ==
    [][/\ d_pc \in {"compound", "colon", "standalone"} =>
              d_processed_indices \subseteq d_processed_indices'
       /\ \A p \in DOMAIN d_doc :
              ~d_doc[p].words_fault =>
                  TokensExclusive(d_all_results' \o d_results', d_doc[p].words, p)
      ]_vars

\* a value token that lies in the search area of a second label and was
\* consumed by the first: the second label gets no record
C24_Witness ==
    /\ d_pc = "done"
    /\ \E p \in DOMAIN d_doc : \E k \in SpatialRecordsIn(OutputSoFar, p) :
       \E a, v \in DOMAIN d_doc[p].words :
           /\ v \in ValueTokens(OutputSoFar[k], d_doc[p].words)
           /\ a \notin LabelTokens(OutputSoFar[k], d_doc[p].words)
           /\ d_doc[p].words[a][5] \in Range(single_labels)
           /\ IsCandidateAnyToken(WordRect(d_doc[p].words[a]), d_doc[p].words, {}, v)
           /\ \A m \in SpatialRecordsIn(OutputSoFar, p) : OutputSoFar[m].key # d_doc[p].words[a][5]

\* C25: two words of the page whose y0 differ by at most 2 are put into the
\* same line bucket, and so are scanned as one line.
C25_JitterTolerated ==
    t_pc = "scan" =>
        \A i, j \in DOMAIN t_words :
            Abs(t_words[i][2] - t_words[j][2]) <= 2 => YKey(t_words[i]) = YKey(t_words[j])

\* C26: Extractor._clean_value is idempotent: applying it to its own output
\* gives that output again.
C26_ExtractorCleanValueIdempotent ==
    c_fn = "_clean_value" => c_out2 = c_out1

\* the data rows of the table that have a non-empty cell in column c
RowsFilling(table, c) ==
    {r \in 2..Len(table.data) : c <= Len(table.data[r]) /\ table.data[r][c] # <<>>}

\* the output holds a record of the table pass for cell (r, c) of table k of
\* page p, keyed by the header of column c
CellSurvives(p, k, r, c) ==
    \E i \in DOMAIN d_all_results :
        d_all_results[i] =
            Record(<<"T","a","b","l","e"," ">> \o IntToStr(k) \o <<" ","-"," ">>
                       \o clean_text(HeaderOf(d_doc[p].tables[k], c)),
                   clean_value(d_doc[p].tables[k].data[r][c]), p - 1,
                   CellBBox(d_doc[p].tables[k], r - 1, c - 1), "Table")

\* the output holds some record of the table pass placed at cell (r, c)
CellRecorded(p, k, r, c) ==
    \E i \in DOMAIN d_all_results :
        /\ d_all_results[i].method = "Table"
        /\ d_all_results[i].page_num = p - 1
        /\ d_all_results[i].coords = CellBBox(d_doc[p].tables[k], r - 1, c - 1)

\* C27: when extract_all has returned, for every table (nothing raising) and
\* every column with a header in which two or more data rows have a
\* non-empty cell, the cell of the first such row has its record in the
\* output and the cells of the later rows have none.
C27_FirstRowSurvives ==
    d_pc = "done" =>
        \A p \in DOMAIN d_doc :
            ~d_doc[p].find_tables_fault =>
                \A k \in DOMAIN d_doc[p].tables :
                    LET table == d_doc[p].tables[k]
                    IN  (~table.extract_fault /\ table.bbox_faults = {} /\ Len(table.data) >= 2) =>
                            \A c \in DOMAIN table.data[1] :
                                (HeaderOf(table, c) # <<>> /\ Cardinality(RowsFilling(table, c)) >= 2) =>
                                    \A r \in RowsFilling(table, c) :
                                        IF \A q \in RowsFilling(table, c) : r <= q
                                        THEN CellSurvives(p, k, r, c)
                                        ELSE ~CellRecorded(p, k, r, c)

\* the matches of a label that stored a value, in reading order
StoredMatchesOf(label) == SelectSeq(MatchesOf(label), LAMBDA m : m.stored)

\* the rectangle of match m: the union of its value words, or the area after
\* the last word of the label
MatchRect(m) ==
    ValueRect(m.value_words,
              LineWords(t_words, SortedLineKeys(t_words)[m.line])
                  [m.pos + Len(Split(m.found_label)) - 1])

\* C28: find_all_fields_on_page returns at most one record per field name,
\* and the record of a label with one or more storing matches holds the
\* value and the rectangle of the last of them in reading order.
C28_LastMatchWins ==
    t_pc = "done" =>
        /\ \A i, j \in DOMAIN t_results :
               t_results[i].name = t_results[j].name => i = j
        /\ \A f \in Range(t_fields) :
               StoredMatchesOf(f.label) # <<>> =>
                   LET m == StoredMatchesOf(f.label)[Len(StoredMatchesOf(f.label))]
                   IN  \E k \in DOMAIN t_results :
                           t_results[k] = [name |-> m.field_name, value |-> m.value_text,
                                           rect |-> MatchRect(m)]

\* a label matched on two lines with two different values, both stored
C28_Witness ==
    /\ t_pc = "done"
    /\ \E f \in Range(t_fields) :
           /\ Len(StoredMatchesOf(f.label)) >= 2
           /\ StoredMatchesOf(f.label)[1].line < StoredMatchesOf(f.label)[2].line
           /\ StoredMatchesOf(f.label)[1].value_text # StoredMatchesOf(f.label)[2].value_text
           /\ \E k \in DOMAIN t_results :
                  /\ t_results[k].name = f.name
                  /\ t_results[k].value = StoredMatchesOf(f.label)[2].value_text

\* what find_all_fields_on_page returns for page n (from 1) of the document
\* under the configuration identified
FieldsReturned(n) ==
    FindAllFieldsOnPage(p_job.pages[n].words,
        SelectSeq(p_job.configs[p_form].fields, LAMBDA f : f.page_num = n - 1))

\* C29: every extracted-data record stored with method "Config Field" has a
\* non-empty value: a field returned with value "" is not persisted.
C29_NoEmptyConfigField ==
    \A i \in DOMAIN p_db.data :
        p_db.data[i].extraction_method = "Config Field" => p_db.data[i].value # <<>>

\* config mode has returned; the Title field of a page was returned with
\* value "" beside a field with a value: the latter is stored, Title is not
C29_Witness ==
    /\ p_pc = "returned"
    /\ p_form # 0
    /\ \E n \in DOMAIN p_job.pages :
           /\ ~p_job.pages[n].words_fault
           /\ \E k \in DOMAIN FieldsReturned(n) :
                  /\ FieldsReturned(n)[k].value = <<>>
                  /\ \A i \in DOMAIN p_db.data : p_db.data[i].key # FieldsReturned(n)[k].name
           /\ \E k \in DOMAIN FieldsReturned(n) : \E i \in DOMAIN p_db.data :
                  /\ p_db.data[i].key = FieldsReturned(n)[k].name
                  /\ p_db.data[i].extraction_method = "Config Field"

\* C30: when process_document is over (the database raising nothing), on
\* every path, a fault of an extraction step included, it has created
\* exactly one Document record and that record is not in status PROCESSING:
\* a record created as PROCESSING has been given SUCCESS or SUCCESS_NO_DATA.
C30_StatusLifecycle ==
    (ProcessorOver /\ p_job.fault_at = 0) =>
        /\ Len(p_db.documents) = 1
        /\ p_db.documents[1].status # "PROCESSING"
        /\ p_job.opens => p_db.documents[1].status \in {"SUCCESS", "SUCCESS_NO_DATA"}

====
